---- MODULE Spec2Model ----
(***************************************************************************)
(* The geometric transformation engine of world-map-reality: the spherical *)
(* rotation builder, the geometry rotator and scaler (utils/geo) and the   *)
(* Mercator scale formula (utils/formatters).                              *)
(*                                                                         *)
(* Numbers.  The program computes in IEEE doubles; the model computes in   *)
(* decimal fixed point.  A dimensionless number x (a vector component, a   *)
(* cosine, a scale factor) is the integer x * SCALE; an angle is held in    *)
(* units of 1/DEG degree, so that 89.9 degrees is 8990.  Every product and  *)
(* quotient rounds to the nearest unit (Mul, Div), as a double rounds to    *)
(* the nearest representable value.  Math.sin, Math.cos, Math.atan2,       *)
(* Math.acos, Math.sqrt and Math.hypot are computed from tables at whole   *)
(* degrees with linear interpolation; the conversion DEG_TO_RAD/RAD_TO_DEG *)
(* is folded into them (Sin takes 1/DEG degrees, Atan2 returns them).       *)
(* Where the program compares with a tolerance, or a claim says "within    *)
(* tolerance", the model uses a tolerance of a few fixed-point units.       *)
(***************************************************************************)
EXTENDS Integers, Sequences, FiniteSets, TLC

\* Fixed-point resolution of a dimensionless number: x is held as x * SCALE.
SCALE == 10 ^ 4
\* Units per degree: an angle of a degrees is held as a * DEG.
DEG == 10 ^ 2

Abs(x) == IF x < 0 THEN -x ELSE x

Sign(x) == IF x < 0 THEN -1 ELSE 1

\* a / b rounded to the nearest integer, halves away from zero (b # 0).
RDiv(a, b) == Sign(a) * Sign(b) * ((Abs(a) + Abs(b) \div 2) \div Abs(b))

\* a * b for two numbers, one of them dimensionless.
Mul(a, b) == RDiv(a * b, SCALE)

\* a / b for two numbers of the same unit (b # 0): a dimensionless number.
Div(a, b) == RDiv(a * SCALE, b)

\* Math.min / Math.max
Min(a, b) == IF a < b THEN a ELSE b

Max(a, b) == IF a > b THEN a ELSE b

\* sin(d degrees) * SCALE for d = 0..90, at index d + 1.
SinTab ==
  <<
     0, 175, 349, 523, 698, 872, 1045, 1219, 1392, 1564,
     1736, 1908, 2079, 2250, 2419, 2588, 2756, 2924, 3090, 3256,
     3420, 3584, 3746, 3907, 4067, 4226, 4384, 4540, 4695, 4848,
     5000, 5150, 5299, 5446, 5592, 5736, 5878, 6018, 6157, 6293,
     6428, 6561, 6691, 6820, 6947, 7071, 7193, 7314, 7431, 7547,
     7660, 7771, 7880, 7986, 8090, 8192, 8290, 8387, 8480, 8572,
     8660, 8746, 8829, 8910, 8988, 9063, 9135, 9205, 9272, 9336,
     9397, 9455, 9511, 9563, 9613, 9659, 9703, 9744, 9781, 9816,
     9848, 9877, 9903, 9925, 9945, 9962, 9976, 9986, 9994, 9998,
     10000
  >>

\* tan(d degrees) * SCALE for d = 0..45, at index d + 1.
TanTab ==
  <<
     0, 175, 349, 524, 699, 875, 1051, 1228, 1405, 1584,
     1763, 1944, 2126, 2309, 2493, 2679, 2867, 3057, 3249, 3443,
     3640, 3839, 4040, 4245, 4452, 4663, 4877, 5095, 5317, 5543,
     5774, 6009, 6249, 6494, 6745, 7002, 7265, 7536, 7813, 8098,
     8391, 8693, 9004, 9325, 9657, 10000
  >>

\* sin of an angle of the first quadrant, a in 0 .. 90 * DEG.
SinQ(a) ==
  LET d == a \div DEG
      r == a % DEG
  IN  IF r = 0 THEN SinTab[d + 1]
      ELSE SinTab[d + 1] + RDiv((SinTab[d + 2] - SinTab[d + 1]) * r, DEG)

\* Math.sin(a * DEG_TO_RAD)
Sin(a) ==
  LET m == a % (360 * DEG)
  IN  IF m <= 90 * DEG THEN SinQ(m)
      ELSE IF m <= 180 * DEG THEN SinQ(180 * DEG - m)
      ELSE IF m <= 270 * DEG THEN -SinQ(m - 180 * DEG)
      ELSE -SinQ(360 * DEG - m)

\* Math.cos(a * DEG_TO_RAD)
Cos(a) == Sin(a + 90 * DEG)

RECURSIVE SqrtSearch(_, _, _)
\* The largest r in lo .. hi with r * r <= n.
SqrtSearch(n, lo, hi) ==
  IF lo >= hi THEN lo
  ELSE LET mid == (lo + hi + 1) \div 2
       IN  IF mid * mid <= n THEN SqrtSearch(n, mid, hi)
           ELSE SqrtSearch(n, lo, mid - 1)

\* Math.sqrt(n / SCALE^2) * SCALE, to the nearest unit: n is a sum of products of
\* fixed-point numbers, not yet divided by SCALE.
Sqrt(n) ==
  LET r == SqrtSearch(n, 0, 2 * SCALE)
  IN  IF n - r * r <= r THEN r ELSE r + 1

\* atan(t / SCALE) * RAD_TO_DEG for a tangent t that lies between the entries d + 1
\* and d + 2 of TanTab: interpolated within d .. d + 1 degrees.
AtanSegment(t, d) ==
  d * DEG + RDiv((t - TanTab[d + 1]) * DEG, TanTab[d + 2] - TanTab[d + 1])

\* atan(t / SCALE) * RAD_TO_DEG for 0 <= t: within 0 .. 45 degrees.
AtanTangent(t) ==
  IF t >= TanTab[46] THEN 45 * DEG
  ELSE AtanSegment(t, CHOOSE i \in 0..44 : TanTab[i + 1] <= t /\ t < TanTab[i + 2])

\* atan(b / a) * RAD_TO_DEG for 0 <= b <= a, a > 0: within 0 .. 45 degrees.
AtanRatio(b, a) == AtanTangent(RDiv(b * SCALE, a))

\* Math.atan2(b, a) * RAD_TO_DEG for a >= 0 and b >= 0: within 0 .. 90 degrees.
AtanQuadrant(b, a) ==
  IF a = 0 /\ b = 0 THEN 0
  ELSE IF b <= a THEN AtanRatio(b, a)
  ELSE 90 * DEG - AtanRatio(a, b)

\* Math.atan2(y, x) * RAD_TO_DEG for y >= 0, from the angle base of (|x|, y):
\* within 0 .. 180 degrees.
AtanHalfPlane(x, base) == IF x >= 0 THEN base ELSE 180 * DEG - base

\* Math.atan2(y, x) * RAD_TO_DEG, within -180 .. 180 degrees; atan2(0, 0) is 0.
Atan2(y, x) == Sign(y) * AtanHalfPlane(x, AtanQuadrant(Abs(y), Abs(x)))

\* Math.acos(x), in 1/DEG degrees, for x in -SCALE .. SCALE.
Acos(x) == Atan2(Sqrt(SCALE * SCALE - x * x), x)

DEG_TO_RAD_NUM == 31416

ROTATION_EPSILON_INV == 1000000

\* value < ROTATION_EPSILON for a fixed-point number: value / SCALE < 1e-6.
BelowEpsilon(value) == value * (ROTATION_EPSILON_INV \div SCALE) < 1

\* angle < ROTATION_EPSILON for an angle held in 1/DEG degrees: the angle in
\* radians is angle * pi / (180 * DEG), with pi as DEG_TO_RAD_NUM / SCALE.
AngleBelowEpsilon(angle) ==
  angle * DEG_TO_RAD_NUM * (ROTATION_EPSILON_INV \div (SCALE * DEG)) < 180

clamp(value, min, max) == Min(Max(value, min), max)

lonLatToVector(lonLat) ==
  LET lambda == lonLat[1]
      phi == lonLat[2]
      cosPhi == Cos(phi)
  IN  <<Mul(cosPhi, Cos(lambda)), Mul(cosPhi, Sin(lambda)), Sin(phi)>>

\* vectorToLonLat with the longitude counted from 0 to 360 degrees.
vectorToLonLatFromZero(v) ==
  LET lon == Atan2(v[2], v[1])
      lat == Atan2(v[3], Sqrt(v[1] * v[1] + v[2] * v[2]))
  IN  <<IF lon < 0 THEN lon + 360 * DEG ELSE lon, lat>>

vectorToLonLat(v) ==
  LET x == v[1]
      y == v[2]
      z == v[3]
      lon == Atan2(y, x)
      hyp == Sqrt(x * x + y * y)
      lat == Atan2(z, hyp)
  IN  <<lon, lat>>

cross(a, b) ==
  << Mul(a[2], b[3]) - Mul(a[3], b[2]),
     Mul(a[3], b[1]) - Mul(a[1], b[3]),
     Mul(a[1], b[2]) - Mul(a[2], b[1]) >>

dot(a, b) == Mul(a[1], b[1]) + Mul(a[2], b[2]) + Mul(a[3], b[3])

\* Math.hypot(v[0], v[1], v[2])
Hypot(v) == Sqrt(v[1] * v[1] + v[2] * v[2] + v[3] * v[3])

\* normalize with an epsilon of 1e-3 for 1e-6.
normalizeWideEpsilon(value) ==
  LET length == Hypot(value)
  IN  IF length * (ROTATION_EPSILON_INV \div SCALE) < 1000 THEN <<0, 0, 0>>
      ELSE << RDiv(value[1] * SCALE, length),
              RDiv(value[2] * SCALE, length),
              RDiv(value[3] * SCALE, length) >>

normalize(value) ==
  LET length == Hypot(value)
  IN  IF BelowEpsilon(length) THEN <<0, 0, 0>>
      ELSE << RDiv(value[1] * SCALE, length),
              RDiv(value[2] * SCALE, length),
              RDiv(value[3] * SCALE, length) >>

\* RotationAxis with the two reference vectors of the fallback exchanged.
RotationAxisOtherReference(fromVec, toVec) ==
  LET axis == cross(fromVec, toVec)
      fallback == IF Abs(fromVec[1]) < (9 * SCALE) \div 10
                  THEN <<0, SCALE, 0>> ELSE <<SCALE, 0, 0>>
  IN  IF BelowEpsilon(Hypot(axis)) THEN normalize(cross(fromVec, fallback))
      ELSE normalize(axis)

\* RotationAxis without the fallback: the cross product normalized, whatever its
\* length.
RotationAxisNoFallback(fromVec, toVec) == normalize(cross(fromVec, toVec))

\* RotationAxis with the operands of the cross product exchanged.
RotationAxisSwapped(fromVec, toVec) ==
  LET axis == cross(toVec, fromVec)
      fallback == IF Abs(fromVec[1]) < (9 * SCALE) \div 10
                  THEN <<SCALE, 0, 0>> ELSE <<0, SCALE, 0>>
  IN  IF BelowEpsilon(Hypot(axis)) THEN normalize(cross(fromVec, fallback))
      ELSE normalize(axis)

\* The rotation axis: cross(fromVec, toVec), or cross(fromVec, fallback) when that
\* is shorter than ROTATION_EPSILON; normalized.
RotationAxis(fromVec, toVec) ==
  LET axis == cross(fromVec, toVec)
      fallback == IF Abs(fromVec[1]) < (9 * SCALE) \div 10
                  THEN <<SCALE, 0, 0>> ELSE <<0, SCALE, 0>>
  IN  IF BelowEpsilon(Hypot(axis)) THEN normalize(cross(fromVec, fallback))
      ELSE normalize(axis)

\* createSphericalRotation turning the other way round, from to to from.
createSphericalRotationReversed(from, to) ==
  LET fromVec == lonLatToVector(from)
      toVec == lonLatToVector(to)
      rawDot == clamp(dot(fromVec, toVec), -SCALE, SCALE)
      angle == Acos(rawDot)
      sinAngle == Sin(angle)
      cosAngle == Cos(angle)
  IN  IF AngleBelowEpsilon(angle)
      THEN [identity |-> TRUE]
      ELSE [identity |-> FALSE, axis |-> RotationAxis(toVec, fromVec),
            sinAngle |-> sinAngle, cosAngle |-> cosAngle,
            oneMinusCos |-> SCALE - cosAngle]

\* createSphericalRotation throwing for endpoints less than ROTATION_EPSILON apart
\* instead of returning the identity function.
createSphericalRotationThrowing(from, to) ==
  LET fromVec == lonLatToVector(from)
      toVec == lonLatToVector(to)
      rawDot == clamp(dot(fromVec, toVec), -SCALE, SCALE)
      angle == Acos(rawDot)
      sinAngle == Sin(angle)
      cosAngle == Cos(angle)
  IN  IF AngleBelowEpsilon(angle) THEN [thrown |-> "RangeError"]
      ELSE [identity |-> FALSE, axis |-> RotationAxis(fromVec, toVec),
            sinAngle |-> sinAngle, cosAngle |-> cosAngle,
            oneMinusCos |-> SCALE - cosAngle]

\* createSphericalRotation without the early return of the identity function.
createSphericalRotationNoEarlyReturn(from, to) ==
  LET fromVec == lonLatToVector(from)
      toVec == lonLatToVector(to)
      rawDot == clamp(dot(fromVec, toVec), -SCALE, SCALE)
      angle == Acos(rawDot)
      sinAngle == Sin(angle)
      cosAngle == Cos(angle)
  IN  [identity |-> FALSE, axis |-> RotationAxis(fromVec, toVec),
       sinAngle |-> sinAngle, cosAngle |-> cosAngle,
       oneMinusCos |-> SCALE - cosAngle]

\* The closure createSphericalRotation returns: the identity function, or the
\* Rodrigues rotation that captures axis, sinAngle, cosAngle and oneMinusCos.
createSphericalRotation(from, to) ==
  LET fromVec == lonLatToVector(from)
      toVec == lonLatToVector(to)
      rawDot == clamp(dot(fromVec, toVec), -SCALE, SCALE)
      angle == Acos(rawDot)
      sinAngle == Sin(angle)
      cosAngle == Cos(angle)
  IN  IF AngleBelowEpsilon(angle)
      THEN [identity |-> TRUE]
      ELSE [identity |-> FALSE, axis |-> RotationAxis(fromVec, toVec),
            sinAngle |-> sinAngle, cosAngle |-> cosAngle,
            oneMinusCos |-> SCALE - cosAngle]

\* Rotate without the term along the axis, axis * dotAxis * oneMinusCos.
RotateNoAxisTerm(rotate, coordinate) ==
  IF rotate.identity THEN coordinate
  ELSE LET axis == rotate.axis
           vec == lonLatToVector(<<coordinate[1], coordinate[2]>>)
           crossAxis == cross(axis, vec)
           rotated == [i \in 1..3 |->
                         Mul(vec[i], rotate.cosAngle)
                         + Mul(crossAxis[i], rotate.sinAngle)]
       IN  vectorToLonLat(rotated)

\* The vector vec turned about the captured axis by the captured angle:
\* vec * cosAngle + crossAxis * sinAngle + axis * dotAxis * oneMinusCos.
Rodrigues(rotate, vec) ==
  [i \in 1..3 |->
     Mul(vec[i], rotate.cosAngle)
     + Mul(cross(rotate.axis, vec)[i], rotate.sinAngle)
     + Mul(Mul(rotate.axis[i], dot(rotate.axis, vec)), rotate.oneMinusCos)]

\* Applying the returned function to a coordinate.
Rotate(rotate, coordinate) ==
  IF rotate.identity THEN coordinate
  ELSE vectorToLonLat(Rodrigues(rotate, lonLatToVector(<<coordinate[1], coordinate[2]>>)))

MAX_LATITUDE == 8990

\* coord.slice(2)
Slice2(coord) == SubSeq(coord, 3, Len(coord))

\* rotatePosition giving the third number of a position to the rotation with its
\* longitude.
rotatePositionWithThird(rotate, coord) ==
  LET lonLat == IF Len(coord) > 2 THEN Rotate(rotate, <<coord[1] + coord[3], coord[2]>>)
                ELSE Rotate(rotate, <<coord[1], coord[2]>>)
  IN  IF Len(coord) > 2 THEN <<lonLat[1], lonLat[2]>> \o Slice2(coord)
      ELSE <<lonLat[1], lonLat[2]>>

rotatePosition(rotate, coord) ==
  LET lonLat == Rotate(rotate, <<coord[1], coord[2]>>)
  IN  IF Len(coord) > 2 THEN <<lonLat[1], lonLat[2]>> \o Slice2(coord)
      ELSE <<lonLat[1], lonLat[2]>>

RECURSIVE rotateGeometry(_, _)
\* rotateGeometry rotating only the outer ring of each polygon of a MultiPolygon:
\* the holes are lost.
rotateGeometryOuterRings(geometry, rotate) ==
  LET position(coord) == rotatePosition(rotate, coord)
      line(l) == [i \in DOMAIN l |-> position(l[i])]
      polygon(p) == [i \in {1} \cap DOMAIN p |-> line(p[i])]
      child(geom) == rotateGeometry(geom, rotate)
  IN  CASE geometry.type = "Point" ->
             [geometry EXCEPT !.coordinates = position(@)]
        [] geometry.type \in {"MultiPoint", "LineString"} ->
             [geometry EXCEPT !.coordinates = [i \in DOMAIN @ |-> position(@[i])]]
        [] geometry.type \in {"MultiLineString", "Polygon"} ->
             [geometry EXCEPT !.coordinates = [i \in DOMAIN @ |-> line(@[i])]]
        [] geometry.type = "MultiPolygon" ->
             [geometry EXCEPT !.coordinates = [i \in DOMAIN @ |-> polygon(@[i])]]
        [] geometry.type = "GeometryCollection" ->
             [geometry EXCEPT !.geometries = [i \in DOMAIN @ |-> child(@[i])]]
        [] OTHER -> geometry

rotateGeometry(geometry, rotate) ==
  LET position(coord) == rotatePosition(rotate, coord)
      line(l) == [i \in DOMAIN l |-> position(l[i])]
      polygon(p) == [i \in DOMAIN p |-> line(p[i])]
      child(geom) == rotateGeometry(geom, rotate)
  IN  CASE geometry.type = "Point" ->
             [geometry EXCEPT !.coordinates = position(@)]
        [] geometry.type \in {"MultiPoint", "LineString"} ->
             [geometry EXCEPT !.coordinates = [i \in DOMAIN @ |-> position(@[i])]]
        [] geometry.type \in {"MultiLineString", "Polygon"} ->
             [geometry EXCEPT !.coordinates = [i \in DOMAIN @ |-> line(@[i])]]
        [] geometry.type = "MultiPolygon" ->
             [geometry EXCEPT !.coordinates = [i \in DOMAIN @ |-> polygon(@[i])]]
        [] geometry.type = "GeometryCollection" ->
             [geometry EXCEPT !.geometries = [i \in DOMAIN @ |-> child(@[i])]]
        [] OTHER -> geometry

\* rotatePosition for a rotate that is any function of a longitude and latitude,
\* held as a function from pairs to pairs.
rotatePositionBy(rotate, coord) ==
  LET lonLat == rotate[<<coord[1], coord[2]>>]
  IN  IF Len(coord) > 2 THEN <<lonLat[1], lonLat[2]>> \o Slice2(coord)
      ELSE <<lonLat[1], lonLat[2]>>

RECURSIVE rotateGeometryBy(_, _)
\* rotateGeometry for a rotate that is any function of a longitude and latitude.
rotateGeometryBy(geometry, rotate) ==
  LET position(coord) == rotatePositionBy(rotate, coord)
      line(l) == [i \in DOMAIN l |-> position(l[i])]
      polygon(p) == [i \in DOMAIN p |-> line(p[i])]
      child(geom) == rotateGeometryBy(geom, rotate)
  IN  CASE geometry.type = "Point" ->
             [geometry EXCEPT !.coordinates = position(@)]
        [] geometry.type \in {"MultiPoint", "LineString"} ->
             [geometry EXCEPT !.coordinates = [i \in DOMAIN @ |-> position(@[i])]]
        [] geometry.type \in {"MultiLineString", "Polygon"} ->
             [geometry EXCEPT !.coordinates = [i \in DOMAIN @ |-> line(@[i])]]
        [] geometry.type = "MultiPolygon" ->
             [geometry EXCEPT !.coordinates = [i \in DOMAIN @ |-> polygon(@[i])]]
        [] geometry.type = "GeometryCollection" ->
             [geometry EXCEPT !.geometries = [i \in DOMAIN @ |-> child(@[i])]]
        [] OTHER -> geometry

\* scalePosition without the numbers after longitude and latitude.
scalePositionPair(center, factor, coord) ==
  LET lon == center[1] + Mul(coord[1] - center[1], factor)
      lat == clamp(center[2] + Mul(coord[2] - center[2], factor),
                   -MAX_LATITUDE, MAX_LATITUDE)
      clampedLon == clamp(lon, -180 * DEG, 180 * DEG)
  IN  <<clampedLon, lat>>

\* scalePosition with the latitude clamped to 90 degrees, not to MAX_LATITUDE.
scalePositionLatitude90(center, factor, coord) ==
  LET lon == center[1] + Mul(coord[1] - center[1], factor)
      lat == clamp(center[2] + Mul(coord[2] - center[2], factor), -90 * DEG, 90 * DEG)
      clampedLon == clamp(lon, -180 * DEG, 180 * DEG)
  IN  IF Len(coord) > 2 THEN <<clampedLon, lat>> \o Slice2(coord)
      ELSE <<clampedLon, lat>>

\* scalePosition scaling the coordinate itself, not its offset from the center.
scalePositionAboutOrigin(center, factor, coord) ==
  LET lon == Mul(coord[1], factor)
      lat == clamp(Mul(coord[2], factor), -MAX_LATITUDE, MAX_LATITUDE)
      clampedLon == clamp(lon, -180 * DEG, 180 * DEG)
  IN  IF Len(coord) > 2 THEN <<clampedLon, lat>> \o Slice2(coord)
      ELSE <<clampedLon, lat>>

\* scalePosition returning the scaled offset, the center not added back.
scalePositionOffsetOnly(center, factor, coord) ==
  LET lon == Mul(coord[1] - center[1], factor)
      lat == clamp(Mul(coord[2] - center[2], factor), -MAX_LATITUDE, MAX_LATITUDE)
      clampedLon == clamp(lon, -180 * DEG, 180 * DEG)
  IN  IF Len(coord) > 2 THEN <<clampedLon, lat>> \o Slice2(coord)
      ELSE <<clampedLon, lat>>

scalePosition(center, factor, coord) ==
  LET lon == center[1] + Mul(coord[1] - center[1], factor)
      lat == clamp(center[2] + Mul(coord[2] - center[2], factor),
                   -MAX_LATITUDE, MAX_LATITUDE)
      clampedLon == clamp(lon, -180 * DEG, 180 * DEG)
  IN  IF Len(coord) > 2 THEN <<clampedLon, lat>> \o Slice2(coord)
      ELSE <<clampedLon, lat>>

RECURSIVE scaleGeometry(_, _, _)
\* scaleGeometry scaling only the outer ring of each polygon of a MultiPolygon: the
\* holes are lost.
scaleGeometryOuterRings(geometry, center, factor) ==
  LET position(coord) == scalePosition(center, factor, coord)
      line(l) == [i \in DOMAIN l |-> position(l[i])]
      polygon(p) == [i \in {1} \cap DOMAIN p |-> line(p[i])]
      child(geom) == scaleGeometry(geom, center, factor)
  IN  CASE geometry.type = "Point" ->
             [geometry EXCEPT !.coordinates = position(@)]
        [] geometry.type \in {"MultiPoint", "LineString"} ->
             [geometry EXCEPT !.coordinates = [i \in DOMAIN @ |-> position(@[i])]]
        [] geometry.type \in {"MultiLineString", "Polygon"} ->
             [geometry EXCEPT !.coordinates = [i \in DOMAIN @ |-> line(@[i])]]
        [] geometry.type = "MultiPolygon" ->
             [geometry EXCEPT !.coordinates = [i \in DOMAIN @ |-> polygon(@[i])]]
        [] geometry.type = "GeometryCollection" ->
             [geometry EXCEPT !.geometries = [i \in DOMAIN @ |-> child(@[i])]]
        [] OTHER -> geometry

scaleGeometry(geometry, center, factor) ==
  LET position(coord) == scalePosition(center, factor, coord)
      line(l) == [i \in DOMAIN l |-> position(l[i])]
      polygon(p) == [i \in DOMAIN p |-> line(p[i])]
      child(geom) == scaleGeometry(geom, center, factor)
  IN  CASE geometry.type = "Point" ->
             [geometry EXCEPT !.coordinates = position(@)]
        [] geometry.type \in {"MultiPoint", "LineString"} ->
             [geometry EXCEPT !.coordinates = [i \in DOMAIN @ |-> position(@[i])]]
        [] geometry.type \in {"MultiLineString", "Polygon"} ->
             [geometry EXCEPT !.coordinates = [i \in DOMAIN @ |-> line(@[i])]]
        [] geometry.type = "MultiPolygon" ->
             [geometry EXCEPT !.coordinates = [i \in DOMAIN @ |-> polygon(@[i])]]
        [] geometry.type = "GeometryCollection" ->
             [geometry EXCEPT !.geometries = [i \in DOMAIN @ |-> child(@[i])]]
        [] OTHER -> geometry

\* getMercatorScale with the current latitude clamped to MAX_LATITUDE.
getMercatorScaleClamped(originalLat, currentLat) ==
  Div(Cos(originalLat), Cos(clamp(currentLat, -MAX_LATITUDE, MAX_LATITUDE)))

\* getMercatorScale with the two latitudes exchanged.
getMercatorScaleInverted(originalLat, currentLat) ==
  Div(Cos(currentLat), Cos(originalLat))

getMercatorScale(originalLat, currentLat) == Div(Cos(originalLat), Cos(currentLat))

(***************************************************************************)
(* The copy of the engine that App.tsx defines for itself: the same        *)
(* functions under the same names, here with App after the name, and its    *)
(* own constants.                                                           *)
(***************************************************************************)
DEG_TO_RAD_NUM_App == 31416

ROTATION_EPSILON_INV_App == 1000000

MAX_LATITUDE_App == 8990

clampApp(value, min, max) == Min(Max(value, min), max)

lonLatToVectorApp(lonLat) ==
  LET lambda == lonLat[1]
      phi == lonLat[2]
      cosPhi == Cos(phi)
  IN  <<Mul(cosPhi, Cos(lambda)), Mul(cosPhi, Sin(lambda)), Sin(phi)>>

vectorToLonLatApp(v) ==
  LET x == v[1]
      y == v[2]
      z == v[3]
      lon == Atan2(y, x)
      hyp == Sqrt(x * x + y * y)
      lat == Atan2(z, hyp)
  IN  <<lon, lat>>

crossApp(a, b) ==
  << Mul(a[2], b[3]) - Mul(a[3], b[2]),
     Mul(a[3], b[1]) - Mul(a[1], b[3]),
     Mul(a[1], b[2]) - Mul(a[2], b[1]) >>

dotApp(a, b) == Mul(a[1], b[1]) + Mul(a[2], b[2]) + Mul(a[3], b[3])

\* length < ROTATION_EPSILON
BelowEpsilonApp(length) == length * (ROTATION_EPSILON_INV_App \div SCALE) < 1

normalizeApp(value) ==
  LET length == Hypot(value)
  IN  IF BelowEpsilonApp(length) THEN <<0, 0, 0>>
      ELSE << RDiv(value[1] * SCALE, length),
              RDiv(value[2] * SCALE, length),
              RDiv(value[3] * SCALE, length) >>

\* let axis = cross(fromVec, toVec), the fallback when it is shorter than
\* ROTATION_EPSILON, and axis = normalize(axis).
RotationAxisApp(fromVec, toVec) ==
  LET axis == crossApp(fromVec, toVec)
      fallback == IF Abs(fromVec[1]) < (9 * SCALE) \div 10
                  THEN <<SCALE, 0, 0>> ELSE <<0, SCALE, 0>>
  IN  IF BelowEpsilonApp(Hypot(axis)) THEN normalizeApp(crossApp(fromVec, fallback))
      ELSE normalizeApp(axis)

\* createSphericalRotation from the angle on: the closure returned.
RotationOfAngleApp(fromVec, toVec, angle) ==
  IF angle * DEG_TO_RAD_NUM_App * (ROTATION_EPSILON_INV_App \div (SCALE * DEG)) < 180
  THEN [identity |-> TRUE]
  ELSE [identity |-> FALSE, axis |-> RotationAxisApp(fromVec, toVec),
        sinAngle |-> Sin(angle), cosAngle |-> Cos(angle),
        oneMinusCos |-> SCALE - Cos(angle)]

\* createSphericalRotation from the two vectors on.
RotationOfVectorsApp(fromVec, toVec) ==
  RotationOfAngleApp(fromVec, toVec,
                     Acos(clampApp(dotApp(fromVec, toVec), -SCALE, SCALE)))

createSphericalRotationApp(from, to) ==
  RotationOfVectorsApp(lonLatToVectorApp(from), lonLatToVectorApp(to))

\* The vector vec turned about the captured axis by the captured angle.
RodriguesApp(rotate, vec) ==
  [i \in 1..3 |->
     Mul(vec[i], rotate.cosAngle)
     + Mul(crossApp(rotate.axis, vec)[i], rotate.sinAngle)
     + Mul(Mul(rotate.axis[i], dotApp(rotate.axis, vec)), rotate.oneMinusCos)]

\* Applying the function createSphericalRotation of App.tsx returned.
RotateApp(rotate, coordinate) ==
  IF rotate.identity THEN coordinate
  ELSE vectorToLonLatApp(
         RodriguesApp(rotate, lonLatToVectorApp(<<coordinate[1], coordinate[2]>>)))

rotatePositionApp(rotate, coord) ==
  LET lonLat == RotateApp(rotate, <<coord[1], coord[2]>>)
  IN  IF Len(coord) > 2 THEN <<lonLat[1], lonLat[2]>> \o Slice2(coord)
      ELSE <<lonLat[1], lonLat[2]>>

RECURSIVE rotateGeometryApp(_, _)
rotateGeometryApp(geometry, rotate) ==
  CASE geometry.type = "Point" ->
         [geometry EXCEPT !.coordinates = rotatePositionApp(rotate, @)]
    [] geometry.type \in {"MultiPoint", "LineString"} ->
         [geometry EXCEPT !.coordinates =
            [i \in DOMAIN @ |-> rotatePositionApp(rotate, @[i])]]
    [] geometry.type \in {"MultiLineString", "Polygon"} ->
         [geometry EXCEPT !.coordinates =
            [i \in DOMAIN @ |-> [j \in DOMAIN @[i] |-> rotatePositionApp(rotate, @[i][j])]]]
    [] geometry.type = "MultiPolygon" ->
         [geometry EXCEPT !.coordinates =
            [i \in DOMAIN @ |->
               [j \in DOMAIN @[i] |->
                  [k \in DOMAIN @[i][j] |-> rotatePositionApp(rotate, @[i][j][k])]]]]
    [] geometry.type = "GeometryCollection" ->
         [geometry EXCEPT !.geometries =
            [i \in DOMAIN @ |-> rotateGeometryApp(@[i], rotate)]]
    [] OTHER -> geometry

scalePositionApp(center, factor, coord) ==
  LET lon == center[1] + Mul(coord[1] - center[1], factor)
      lat == clampApp(center[2] + Mul(coord[2] - center[2], factor),
                      -MAX_LATITUDE_App, MAX_LATITUDE_App)
      clampedLon == clampApp(lon, -180 * DEG, 180 * DEG)
  IN  IF Len(coord) > 2 THEN <<clampedLon, lat>> \o Slice2(coord)
      ELSE <<clampedLon, lat>>

RECURSIVE scaleGeometryApp(_, _, _)
scaleGeometryApp(geometry, center, factor) ==
  CASE geometry.type = "Point" ->
         [geometry EXCEPT !.coordinates = scalePositionApp(center, factor, @)]
    [] geometry.type \in {"MultiPoint", "LineString"} ->
         [geometry EXCEPT !.coordinates =
            [i \in DOMAIN @ |-> scalePositionApp(center, factor, @[i])]]
    [] geometry.type \in {"MultiLineString", "Polygon"} ->
         [geometry EXCEPT !.coordinates =
            [i \in DOMAIN @ |->
               [j \in DOMAIN @[i] |-> scalePositionApp(center, factor, @[i][j])]]]
    [] geometry.type = "MultiPolygon" ->
         [geometry EXCEPT !.coordinates =
            [i \in DOMAIN @ |->
               [j \in DOMAIN @[i] |->
                  [k \in DOMAIN @[i][j] |-> scalePositionApp(center, factor, @[i][j][k])]]]]
    [] geometry.type = "GeometryCollection" ->
         [geometry EXCEPT !.geometries =
            [i \in DOMAIN @ |-> scaleGeometryApp(@[i], center, factor)]]
    [] OTHER -> geometry

getMercatorScaleApp(originalLat, currentLat) == Div(Cos(originalLat), Cos(currentLat))

(***************************************************************************)
(* Objects.  A JavaScript array or object is a cell of the heap, held by   *)
(* its address; the heap is the sequence of the cells allocated so far.    *)
(* An array is the cell [items |-> ...] of its numbers (a position) or of  *)
(* the addresses of its elements; a geometry object is the cell of its     *)
(* members, with the address of its coordinates or geometries array.  An   *)
(* operation on objects returns the heap it leaves and the address, or the *)
(* addresses, of what it returns.                                          *)
(***************************************************************************)

\* How deep the coordinates of a geometry are nested: 1 for a position.
Depth(type) ==
  CASE type = "Point" -> 1
    [] type \in {"MultiPoint", "LineString"} -> 2
    [] type \in {"MultiLineString", "Polygon"} -> 3
    [] type = "MultiPolygon" -> 4
    [] OTHER -> 2

\* A new object: an array literal, the result of map, an object literal.
Allocate(heap, cell) == [heap |-> Append(heap, cell), ref |-> Len(heap) + 1]

\* The elements mapped so far (map goes by index) and the next one.
Push(elements, element) ==
  [heap |-> element.heap, refs |-> Append(elements.refs, element.ref)]

\* The new array of the elements mapped.
ArrayOf(elements) == Allocate(elements.heap, [items |-> elements.refs])

\* { ...geometry, coordinates: array }
WithCoordinates(geometry, array) ==
  Allocate(array.heap, [geometry EXCEPT !.coordinates = array.ref])

\* { ...geometry, geometries: array }
WithGeometries(geometry, array) ==
  Allocate(array.heap, [geometry EXCEPT !.geometries = array.ref])

RECURSIVE NewArray(_, _, _)
RECURSIVE NewArrays(_, _, _)
\* A new array for each element of arrays, one after the other.
NewArrays(elements, arrays, depth) ==
  IF Len(elements.refs) = Len(arrays) THEN elements
  ELSE NewArrays(Push(elements, NewArray(elements.heap, arrays[Len(elements.refs) + 1], depth)),
                 arrays, depth)

\* A new array with new arrays for its elements, down to the positions.
NewArray(heap, array, depth) ==
  IF depth = 1 THEN Allocate(heap, [items |-> array])
  ELSE ArrayOf(NewArrays([heap |-> heap, refs |-> <<>>], array, depth - 1))

RECURSIVE ArrayAt(_, _, _)
\* The value of the array at ref: its numbers, level by level.
ArrayAt(heap, ref, depth) ==
  IF depth = 1 THEN heap[ref].items
  ELSE [i \in DOMAIN heap[ref].items |-> ArrayAt(heap, heap[ref].items[i], depth - 1)]

RECURSIVE GeometryAt(_, _)
\* The value of the geometry object at ref.
GeometryAt(heap, ref) ==
  LET geometry == heap[ref]
  IN  IF geometry.type = "GeometryCollection"
      THEN [geometry EXCEPT !.geometries =
              [i \in DOMAIN heap[@].items |-> GeometryAt(heap, heap[@].items[i])]]
      ELSE [geometry EXCEPT !.coordinates = ArrayAt(heap, @, Depth(geometry.type))]

RECURSIVE NewGeometry(_, _)
RECURSIVE NewGeometries(_, _)
\* A new geometry object for each element of geometries, one after the other.
NewGeometries(elements, geometries) ==
  IF Len(elements.refs) = Len(geometries) THEN elements
  ELSE NewGeometries(
         Push(elements, NewGeometry(elements.heap, geometries[Len(elements.refs) + 1])),
         geometries)

\* The geometry object of a feature as the caller holds it, with its arrays.
NewGeometry(heap, geometry) ==
  IF geometry.type = "GeometryCollection"
  THEN WithGeometries(geometry,
         ArrayOf(NewGeometries([heap |-> heap, refs |-> <<>>], geometry.geometries)))
  ELSE WithCoordinates(geometry,
         NewArray(heap, geometry.coordinates, Depth(geometry.type)))

KnownTypes ==
  {"Point", "MultiPoint", "LineString", "MultiLineString", "Polygon", "MultiPolygon",
   "GeometryCollection"}

RECURSIVE rotateGeometryAt(_, _, _)
RECURSIVE rotateGeometriesAt(_, _, _)
\* geometry.geometries.map((geom) => rotateGeometry(geom, rotate)), element by element.
rotateGeometriesAt(elements, refs, rotate) ==
  IF Len(elements.refs) = Len(refs) THEN elements
  ELSE rotateGeometriesAt(
         Push(elements, rotateGeometryAt(elements.heap, refs[Len(elements.refs) + 1], rotate)),
         refs, rotate)

\* rotateGeometry writing the new coordinates into the object it was given.
rotateGeometryInPlace(heap, ref, rotate) ==
  LET geometry == heap[ref]
  IN  CASE geometry.type = "GeometryCollection" ->
             LET array == ArrayOf(rotateGeometriesAt([heap |-> heap, refs |-> <<>>],
                                                     heap[geometry.geometries].items, rotate))
             IN  [heap |-> [array.heap EXCEPT ![ref].geometries = array.ref], ref |-> ref]
        [] geometry.type \in KnownTypes \ {"GeometryCollection"} ->
             LET array == NewArray(heap,
                                   rotateGeometry(GeometryAt(heap, ref), rotate).coordinates,
                                   Depth(geometry.type))
             IN  [heap |-> [array.heap EXCEPT ![ref].coordinates = array.ref], ref |-> ref]
        [] OTHER -> [heap |-> heap, ref |-> ref]

\* rotateGeometry on objects: the geometry at ref is read, every array of the
\* result and the result itself are new objects, and the default case returns the
\* object it was given.
rotateGeometryAt(heap, ref, rotate) ==
  LET geometry == heap[ref]
  IN  CASE geometry.type = "GeometryCollection" ->
             WithGeometries(geometry,
               ArrayOf(rotateGeometriesAt([heap |-> heap, refs |-> <<>>],
                                          heap[geometry.geometries].items, rotate)))
        [] geometry.type \in KnownTypes \ {"GeometryCollection"} ->
             WithCoordinates(geometry,
               NewArray(heap, rotateGeometry(GeometryAt(heap, ref), rotate).coordinates,
                        Depth(geometry.type)))
        [] OTHER -> [heap |-> heap, ref |-> ref]

RECURSIVE scaleGeometryAt(_, _, _, _)
RECURSIVE scaleGeometriesAt(_, _, _, _)
\* geometry.geometries.map((geom) => scaleGeometry(geom, center, factor))
scaleGeometriesAt(elements, refs, center, factor) ==
  IF Len(elements.refs) = Len(refs) THEN elements
  ELSE scaleGeometriesAt(
         Push(elements,
              scaleGeometryAt(elements.heap, refs[Len(elements.refs) + 1], center, factor)),
         refs, center, factor)

\* scaleGeometry writing the new coordinates into the object it was given.
scaleGeometryInPlace(heap, ref, center, factor) ==
  LET geometry == heap[ref]
  IN  CASE geometry.type = "GeometryCollection" ->
             LET array == ArrayOf(scaleGeometriesAt([heap |-> heap, refs |-> <<>>],
                                                    heap[geometry.geometries].items,
                                                    center, factor))
             IN  [heap |-> [array.heap EXCEPT ![ref].geometries = array.ref], ref |-> ref]
        [] geometry.type \in KnownTypes \ {"GeometryCollection"} ->
             LET array == NewArray(heap,
                                   scaleGeometry(GeometryAt(heap, ref), center, factor).coordinates,
                                   Depth(geometry.type))
             IN  [heap |-> [array.heap EXCEPT ![ref].coordinates = array.ref], ref |-> ref]
        [] OTHER -> [heap |-> heap, ref |-> ref]

\* scaleGeometry taking a geometry of no known kind for a list of positions.
scaleGeometryAnyKind(heap, ref, center, factor) ==
  LET geometry == heap[ref]
  IN  CASE geometry.type = "GeometryCollection" ->
             WithGeometries(geometry,
               ArrayOf(scaleGeometriesAt([heap |-> heap, refs |-> <<>>],
                                         heap[geometry.geometries].items, center, factor)))
        [] geometry.type \in KnownTypes \ {"GeometryCollection"} ->
             WithCoordinates(geometry,
               NewArray(heap,
                        scaleGeometry(GeometryAt(heap, ref), center, factor).coordinates,
                        Depth(geometry.type)))
        [] OTHER ->
             WithCoordinates(geometry,
               NewArray(heap,
                        [i \in DOMAIN heap[geometry.coordinates].items |->
                           scalePosition(center, factor,
                                         heap[heap[geometry.coordinates].items[i]].items)],
                        Depth(geometry.type)))

\* scaleGeometry on objects, as rotateGeometryAt.
scaleGeometryAt(heap, ref, center, factor) ==
  LET geometry == heap[ref]
  IN  CASE geometry.type = "GeometryCollection" ->
             WithGeometries(geometry,
               ArrayOf(scaleGeometriesAt([heap |-> heap, refs |-> <<>>],
                                         heap[geometry.geometries].items, center, factor)))
        [] geometry.type \in KnownTypes \ {"GeometryCollection"} ->
             WithCoordinates(geometry,
               NewArray(heap,
                        scaleGeometry(GeometryAt(heap, ref), center, factor).coordinates,
                        Depth(geometry.type)))
        [] OTHER -> [heap |-> heap, ref |-> ref]

(***************************************************************************)
(* The inputs.  The engine is a set of pure functions: a run of the model  *)
(* draws one call with its arguments (Init) and then makes it, one action  *)
(* per function called.                                                    *)
(***************************************************************************)

\* Positions per line or ring, at most.
MaxLen == 3

\* Lines per MultiLineString, rings per Polygon, polygons per MultiPolygon, at most.
MaxParts == 2

\* Numbers a position holds beyond longitude and latitude, at most.
MaxExtra == 2

\* Depth of nested GeometryCollections, at most.
MaxDepth == 2

Degrees(lon, lat) == <<lon * DEG, lat * DEG>>

\* The endpoints of a rotation, multiples of 30 degrees: the unit vector of each is
\* exact, or accurate to a unit, in the fixed point of the model.  Among them are
\* pairs of equal points, of opposite points ((0, 0) and (180, 0), (60, 30) and
\* (-120, -30), the two poles) and two names of the north pole.
Tos ==
  ({-120 * DEG, -90 * DEG, 0, 60 * DEG} \X {-30 * DEG, 0, 30 * DEG, 60 * DEG})
    \cup {Degrees(0, 90), Degrees(0, -90), Degrees(30, 90)}

Froms == Tos \cup {Degrees(180, 0)}

\* The points a rotation is applied to; the last three lie outside the ranges of a
\* longitude and of a latitude.
Coordinates ==
  Froms \cup { Degrees(10, 10), Degrees(-10, -10), Degrees(10, -10), Degrees(-10, 10),
                 Degrees(170, -80), Degrees(-45, 45), <<12345, -6789>>,
                 Degrees(270, 0), Degrees(-200, 100), Degrees(540, -135) }

LonLatPool ==
  << Degrees(0, 0), Degrees(10, 10), Degrees(-10, -10), Degrees(0, 86),
     Degrees(170, -80), Degrees(-30, 45), <<12345, -6789>> >>

\* The i-th position: a pair of the pool and i % (MaxExtra + 1) further numbers.
Position(i) ==
  LonLatPool[(i % Len(LonLatPool)) + 1]
    \o [k \in 1..(i % (MaxExtra + 1)) |-> 1000 * k + i]

Line(seed, n) == [i \in 1..n |-> Position(seed + i)]

Lines(seed, m, n) == [j \in 1..m |-> Line(seed + j, n)]

Seeds == {0, 4}

Points == { [type |-> "Point", coordinates |-> Position(s)] : s \in Seeds \cup {2, 9} }

LineStrings ==
  { [type |-> t, coordinates |-> Line(s, n)] :
      t \in {"MultiPoint", "LineString"}, s \in Seeds, n \in 0..MaxLen }

Polygons ==
  { [type |-> t, coordinates |-> Lines(s, m, n)] :
      t \in {"MultiLineString", "Polygon"}, s \in Seeds, m \in 0..MaxParts, n \in 1..MaxLen }

MultiPolygons ==
  { [type |-> "MultiPolygon", coordinates |-> [k \in 1..m |-> Lines(s + k, MaxParts, MaxLen)]] :
      s \in Seeds, m \in 0..MaxParts }

RECURSIVE Collection(_, _)
\* A GeometryCollection nested d deep.
Collection(seed, d) ==
  IF d = 0 THEN [type |-> "GeometryCollection", geometries |-> <<>>]
  ELSE [type |-> "GeometryCollection",
        geometries |->
          << [type |-> "Point", coordinates |-> Position(seed + d)],
             Collection(seed, d - 1),
             [type |-> "Polygon", coordinates |-> Lines(seed + d, MaxParts, MaxLen)],
             [type |-> "MultiPolygon",
              coordinates |-> <<Lines(seed, 1, 2), Lines(seed + 1, 2, 1)>>],
             [type |-> "LineString", coordinates |-> Line(seed + 2 * d, 2)],
             [type |-> "Feature", coordinates |-> Line(seed + d, 1)] >>]

Collections == { Collection(s, d) : s \in Seeds, d \in 0..MaxDepth }

\* A geometry of a kind the engine does not know.
Others == { [type |-> "Feature", coordinates |-> Line(s, 2)] : s \in Seeds }

Geometries == Points \cup LineStrings \cup Polygons \cup MultiPolygons \cup Collections \cup Others

\* The rotations applied to whole geometries.
GeometryFroms == {Degrees(0, 0), Degrees(60, 30), Degrees(0, 90)}

Centers == {Degrees(0, 0), Degrees(0, 85), Degrees(-10, -10), Degrees(30, 60)}

Factors == {0, -SCALE, SCALE \div 10, SCALE \div 2, SCALE, 2 * SCALE, 4 * SCALE, 10 * SCALE}

Latitudes ==
  {-8999, -8990, -60 * DEG, -45 * DEG, 0, 30 * DEG, 45 * DEG, 60 * DEG, 85 * DEG,
   89 * DEG, 8990, 8999}

\* The square of the end-to-end scenario, its ring closed, centred on (0, 0).
Square ==
  [type |-> "Polygon",
   coordinates |-> << << Degrees(-10, -10), Degrees(10, -10), Degrees(10, 10),
                         Degrees(-10, 10), Degrees(-10, -10) >> >>]

\* The vectors normalize is given: the zero vector, the shortest vectors the fixed
\* point holds (1e-4 long, above ROTATION_EPSILON), unit vectors and longer ones.
Vectors ==
  { <<0, 0, 0>>, <<1, 0, 0>>, <<0, -1, 0>>, <<0, 0, 2>>, <<3, 4, 0>>, <<SCALE, 0, 0>>,
    <<0, SCALE \div 2, 0>>, <<6000, 0, -8000>>, <<SCALE, SCALE, SCALE>>,
    <<-3000, 4000, 12000>>, <<0, 0, -SCALE>> }

EARTH_DIAMETER_KM == 12742

\* diameterKm of each of PLANETS, in the order of the table.
PLANETS == <<142984, 120536, 51118, 49528, 12742, 1738, 12104, 6779, 4879>>

\* planetScaleFactor with the factor of the Earth for every planet.
planetScaleFactorOfEarth(diameterKm) == SCALE

\* EARTH_DIAMETER_KM / activePlanet.diameterKm
planetScaleFactor(diameterKm) == RDiv(EARTH_DIAMETER_KM * SCALE, diameterKm)

Null == [none |-> TRUE]

\* The geometries of the country placed on a planet; a feature may have none.  The
\* MultiPoint holds the two centroids a placement starts from.
PlanetGeometries ==
  { Square, Null, Collection(0, 1),
    [type |-> "MultiPoint",
     coordinates |-> <<Degrees(0, 0), Degrees(60, 30) \o <<500>>, Degrees(10, 10)>>],
    [type |-> "LineString", coordinates |-> Line(0, MaxLen)],
    [type |-> "Feature", coordinates |-> Line(0, 2)] }

Calls ==
  { [fn |-> "rotate", from |-> f, to |-> t, coordinate |-> c] :
      f \in Froms, t \in Tos, c \in Coordinates }
  \cup
  { [fn |-> "rotateGeometry", from |-> f, to |-> t, geometry |-> g] :
      f \in GeometryFroms, t \in Tos, g \in Geometries \cup {Square} }
  \cup
  { [fn |-> "scaleGeometry", geometry |-> g, center |-> c, factor |-> x] :
      g \in Geometries, c \in Centers, x \in Factors }
  \cup
  { [fn |-> "getMercatorScale", originalLat |-> o, currentLat |-> c] :
      o \in Latitudes, c \in Latitudes }
  \cup
  { [fn |-> "normalize", value |-> v] : v \in Vectors }
  \cup
  { [fn |-> "planetCountryFeature", geometry |-> g, originalCentroid |-> f,
     planetCountryCentroid |-> t, diameterKm |-> PLANETS[k]] :
      g \in PlanetGeometries, f \in {Degrees(0, 0), Degrees(60, 30)},
      t \in {Degrees(0, 0), Degrees(0, 60), Degrees(-120, -30), Degrees(-90, 30)},
      k \in DOMAIN PLANETS }

\* The heap a call starts from: the geometry the caller holds, if the call has one.
InitialHeap(c) ==
  IF "geometry" \in DOMAIN c /\ c.geometry # Null
  THEN NewGeometry(<<>>, c.geometry)
  ELSE [heap |-> <<>>, ref |-> 0]

\* The value of the geometry at ref, or Null for no geometry.
ValueAt(objects, ref) == IF ref = 0 THEN Null ELSE GeometryAt(objects, ref)

(***************************************************************************)
(* The state: the call being made, how far it has got, the closure that    *)
(* createSphericalRotation returned, the value returned, the value of the  *)
(* second scaleGeometry of a round trip, the heap with the address of the  *)
(* geometry given and of the geometry returned, the scaled geometry of a   *)
(* planet placement, and the value the same call returned a second time.   *)
(* The state of the page of App.tsx is declared after it.                  *)
(***************************************************************************)
VARIABLES call, pc, rotation, result, restored, heap, input, output, scaled, repeated

(***************************************************************************)
(* The page of App.tsx: the state of the component, its drag refs and the  *)
(* runs of its load effect.  Pixels are whole numbers, angles hundredths   *)
(* of a degree; null is NoId for an id or a message, NoLonLat for a point, *)
(* Null for a drag state.                                                  *)
(***************************************************************************)
MAP_WIDTH == 1100

MAP_HEIGHT == 650

MAP_PADDING == 40

\* 0.25 degrees for each pixel
GLOBE_DRAG_SENSITIVITY == 25

\* 80 degrees
MAX_GLOBE_TILT == 8000

GLOBE_DEFAULT_ROTATION == <<-20 * DEG, -10 * DEG, 0>>

PLANET_DEFAULT_ROTATION == <<-28 * DEG, -12 * DEG, 0>>

NoId == ""

NoLonLat == <<>>

\* The ids of COUNTRY_ORDER that the data of the model holds.
COUNTRY_ORDER == <<"76">>

\* The names of COUNTRY_META, by id; area and color are shown and never read by a
\* handler, and are left out of the records.
COUNTRY_META == [id \in {"76"} |-> "Brazil"]

VARIABLES countries, worldFeatures, selectedId, draggingId, draggableIds, loading, error,
          activeView, globeDragMode, globeModifierPressed, solarSystemEnabled,
          planetCountryId, planetCountryCentroid, planetRotation, globeRotation,
          globeDragging, planetDragging,
          dragState, globeDragState, globeCountryDragState, planetCountryDragState,
          planetDragState, loads, gestures

engine == <<call, pc, rotation, result, restored, heap, input, output, scaled, repeated>>

page ==
  <<countries, worldFeatures, selectedId, draggingId, draggableIds, loading, error,
    activeView, globeDragMode, globeModifierPressed, solarSystemEnabled,
    planetCountryId, planetCountryCentroid, planetRotation, globeRotation,
    globeDragging, planetDragging,
    dragState, globeDragState, globeCountryDragState, planetCountryDragState,
    planetDragState, loads, gestures>>

vars == <<engine, page>>

\* No load effect has run.
NothingLoaded ==
  /\ countries = <<>>
  /\ worldFeatures = <<>>
  /\ selectedId = NoId
  /\ draggableIds = <<>>
  /\ loading = TRUE
  /\ error = NoId
  /\ loads = <<>>

\* No handler has run.
NothingHandled ==
  /\ draggingId = NoId
  /\ activeView = "map"
  /\ globeDragMode = "rotate"
  /\ globeModifierPressed = FALSE
  /\ solarSystemEnabled = TRUE
  /\ planetCountryId = NoId
  /\ planetCountryCentroid = NoLonLat
  /\ planetRotation = PLANET_DEFAULT_ROTATION
  /\ globeRotation = GLOBE_DEFAULT_ROTATION
  /\ globeDragging = FALSE
  /\ planetDragging = FALSE
  /\ dragState = Null
  /\ globeDragState = Null
  /\ globeCountryDragState = Null
  /\ planetCountryDragState = Null
  /\ planetDragState = Null
  /\ gestures = 0

\* The component as useState and useRef construct it, before its load effect runs.
Constructed == NothingLoaded /\ NothingHandled

Init ==
  /\ call \in Calls
  /\ pc = "start"
  /\ rotation = Null
  /\ result = Null
  /\ restored = Null
  /\ heap = InitialHeap(call).heap
  /\ input = InitialHeap(call).ref
  /\ output = 0
  /\ scaled = Null
  /\ repeated = Null
  /\ Constructed

\* const rotation = createSphericalRotation(from, to)
CreateSphericalRotation ==
  /\ pc = "start"
  /\ call.fn \in {"rotate", "rotateGeometry"}
  /\ rotation' = createSphericalRotation(call.from, call.to)
  /\ pc' = "rotation"
  /\ UNCHANGED <<call, result, restored, heap, input, output, scaled, repeated>>
  /\ UNCHANGED page

\* rotation(coordinate)
ApplyRotation ==
  /\ pc = "rotation"
  /\ call.fn = "rotate"
  /\ result' = Rotate(rotation, call.coordinate)
  /\ pc' = "done"
  /\ UNCHANGED <<call, rotation, restored, heap, input, output, scaled, repeated>>
  /\ UNCHANGED page

\* rotateGeometry(geometry, rotation)
RotateGeometry ==
  /\ pc = "rotation"
  /\ call.fn = "rotateGeometry"
  /\ \E returned \in {rotateGeometryAt(heap, input, rotation)} :
       /\ heap' = returned.heap
       /\ output' = returned.ref
       /\ result' = GeometryAt(returned.heap, returned.ref)
  /\ pc' = "done"
  /\ UNCHANGED <<call, rotation, restored, input, scaled, repeated>>
  /\ UNCHANGED page

\* scaleGeometry(geometry, center, factor)
ScaleGeometry ==
  /\ pc = "start"
  /\ call.fn = "scaleGeometry"
  /\ \E returned \in {scaleGeometryAt(heap, input, call.center, call.factor)} :
       /\ heap' = returned.heap
       /\ output' = returned.ref
       /\ result' = GeometryAt(returned.heap, returned.ref)
  /\ pc' = "done"
  /\ UNCHANGED <<call, rotation, restored, input, scaled, repeated>>
  /\ UNCHANGED page

\* scaleGeometry(result, center, 1 / factor): the way back of a round trip.
ScaleGeometryBack ==
  /\ pc = "done"
  /\ call.fn = "scaleGeometry"
  /\ call.factor # 0
  /\ \E returned \in {scaleGeometryAt(heap, output, call.center, Div(SCALE, call.factor))} :
       /\ heap' = returned.heap
       /\ restored' = GeometryAt(returned.heap, returned.ref)
  /\ pc' = "back"
  /\ UNCHANGED <<call, rotation, result, input, output, scaled, repeated>>
  /\ UNCHANGED page

\* getMercatorScale(originalLat, currentLat)
GetMercatorScale ==
  /\ pc = "start"
  /\ call.fn = "getMercatorScale"
  /\ result' = getMercatorScale(call.originalLat, call.currentLat)
  /\ pc' = "done"
  /\ UNCHANGED <<call, rotation, restored, heap, input, output, scaled, repeated>>
  /\ UNCHANGED page

\* normalize(value)
Normalize ==
  /\ pc = "start"
  /\ call.fn = "normalize"
  /\ result' = normalize(call.value)
  /\ pc' = "done"
  /\ UNCHANGED <<call, rotation, restored, heap, input, output, scaled, repeated>>
  /\ UNCHANGED page

\* The planetCountryFeature memo rotating the geometry first and scaling the
\* rotated geometry.
PlanetCountryFeatureRotateFirst ==
  /\ pc = "start"
  /\ call.fn = "planetCountryFeature"
  /\ \E created \in {createSphericalRotation(call.originalCentroid,
                                             call.planetCountryCentroid)} :
     \E rotatedGeometry \in
          {IF input # 0 THEN rotateGeometryAt(heap, input, created)
           ELSE [heap |-> heap, ref |-> input]} :
     \E scaledGeometry \in
          {IF rotatedGeometry.ref # 0
           THEN scaleGeometryAt(rotatedGeometry.heap, rotatedGeometry.ref,
                                call.originalCentroid, planetScaleFactor(call.diameterKm))
           ELSE rotatedGeometry} :
       /\ heap' = scaledGeometry.heap
       /\ output' = scaledGeometry.ref
       /\ rotation' = created
       /\ scaled' = ValueAt(scaledGeometry.heap, scaledGeometry.ref)
       /\ result' = ValueAt(scaledGeometry.heap, scaledGeometry.ref)
  /\ pc' = "done"
  /\ UNCHANGED <<call, restored, input, repeated>>
  /\ UNCHANGED page

\* The planetCountryFeature memo, the geometry of the country on the planet: the
\* geometry of the feature (none when input is 0) is scaled about the original
\* centroid, and the scaled geometry is rotated from the original centroid to the
\* centroid on the planet.
PlanetCountryFeature ==
  /\ pc = "start"
  /\ call.fn = "planetCountryFeature"
  /\ \E scaledGeometry \in
          {IF input # 0
           THEN scaleGeometryAt(heap, input, call.originalCentroid,
                                planetScaleFactor(call.diameterKm))
           ELSE [heap |-> heap, ref |-> input]} :
     \E created \in {createSphericalRotation(call.originalCentroid,
                                             call.planetCountryCentroid)} :
     \E rotatedGeometry \in
          {IF scaledGeometry.ref # 0
           THEN rotateGeometryAt(scaledGeometry.heap, scaledGeometry.ref, created)
           ELSE scaledGeometry} :
       /\ heap' = rotatedGeometry.heap
       /\ output' = rotatedGeometry.ref
       /\ rotation' = created
       /\ scaled' = ValueAt(scaledGeometry.heap, scaledGeometry.ref)
       /\ result' = ValueAt(rotatedGeometry.heap, rotatedGeometry.ref)
  /\ pc' = "done"
  /\ UNCHANGED <<call, restored, input, repeated>>
  /\ UNCHANGED page

\* The engine functions the memos call between two calls of one function: the
\* geometry of a country is rotated for the globe and scaled for the planet, the
\* same object each time.
OtherCalls == {"rotateGeometry", "scaleGeometry"}

\* Another call of the engine, on the geometry of the call when it has one.
OtherCall ==
  /\ pc = "done"
  /\ call.fn # "planetCountryFeature"
  /\ \E other \in OtherCalls :
       LET given == IF input # 0 THEN [heap |-> heap, ref |-> input]
                    ELSE NewGeometry(heap, Square)
       IN  heap' =
             IF other = "rotateGeometry"
             THEN rotateGeometryAt(given.heap, given.ref,
                                   createSphericalRotation(Degrees(0, 0), Degrees(60, 30))).heap
             ELSE scaleGeometryAt(given.heap, given.ref, Degrees(0, 0), 2 * SCALE).heap
  /\ pc' = "between"
  /\ UNCHANGED <<call, rotation, result, restored, input, output, scaled, repeated>>
  /\ UNCHANGED page

\* The call of the run, made again with the arguments it was first made with: the
\* same geometry object, the closure createSphericalRotation returned then.
RepeatCall ==
  /\ pc = "between"
  /\ \E returned \in
         { CASE call.fn = "rotateGeometry" ->
                  rotateGeometryAt(heap, input, createSphericalRotation(call.from, call.to))
             [] call.fn = "scaleGeometry" ->
                  scaleGeometryAt(heap, input, call.center, call.factor)
             [] OTHER -> [heap |-> heap, ref |-> 0] } :
       /\ heap' = returned.heap
       /\ repeated' =
            CASE call.fn = "rotate" -> Rotate(rotation, call.coordinate)
              [] call.fn = "getMercatorScale" ->
                   getMercatorScale(call.originalLat, call.currentLat)
              [] call.fn = "normalize" -> normalize(call.value)
              [] OTHER -> ValueAt(returned.heap, returned.ref)
  /\ pc' = "repeated"
  /\ UNCHANGED <<call, rotation, result, restored, input, output, scaled>>
  /\ UNCHANGED page

Next ==
  \/ CreateSphericalRotation
  \/ ApplyRotation
  \/ RotateGeometry
  \/ ScaleGeometry
  \/ ScaleGeometryBack
  \/ GetMercatorScale
  \/ Normalize
  \/ PlanetCountryFeature
  \/ OtherCall
  \/ RepeatCall

Spec == Init /\ [][Next]_vars

(***************************************************************************)
(* The same calls made of the copy of the engine in App.tsx.                *)
(***************************************************************************)
AppInit ==
  /\ Init
  /\ call.fn \in {"rotate", "rotateGeometry", "scaleGeometry", "getMercatorScale"}

\* const rotation = createSphericalRotation(from, to)
CreateSphericalRotationApp ==
  /\ pc = "start"
  /\ call.fn \in {"rotate", "rotateGeometry"}
  /\ rotation' = createSphericalRotationApp(call.from, call.to)
  /\ pc' = "rotation"
  /\ UNCHANGED <<call, result, restored, heap, input, output, scaled, repeated>>
  /\ UNCHANGED page

\* rotation(coordinate)
ApplyRotationApp ==
  /\ pc = "rotation"
  /\ call.fn = "rotate"
  /\ result' = RotateApp(rotation, call.coordinate)
  /\ pc' = "done"
  /\ UNCHANGED <<call, rotation, restored, heap, input, output, scaled, repeated>>
  /\ UNCHANGED page

\* rotateGeometry(geometry, rotation)
RotateGeometryApp ==
  /\ pc = "rotation"
  /\ call.fn = "rotateGeometry"
  /\ result' = rotateGeometryApp(call.geometry, rotation)
  /\ pc' = "done"
  /\ UNCHANGED <<call, rotation, restored, heap, input, output, scaled, repeated>>
  /\ UNCHANGED page

\* scaleGeometry(geometry, center, factor)
ScaleGeometryApp ==
  /\ pc = "start"
  /\ call.fn = "scaleGeometry"
  /\ result' = scaleGeometryApp(call.geometry, call.center, call.factor)
  /\ pc' = "done"
  /\ UNCHANGED <<call, rotation, restored, heap, input, output, scaled, repeated>>
  /\ UNCHANGED page

\* getMercatorScale(originalLat, currentLat)
GetMercatorScaleApp ==
  /\ pc = "start"
  /\ call.fn = "getMercatorScale"
  /\ result' = getMercatorScaleApp(call.originalLat, call.currentLat)
  /\ pc' = "done"
  /\ UNCHANGED <<call, rotation, restored, heap, input, output, scaled, repeated>>
  /\ UNCHANGED page

AppNext ==
  \/ CreateSphericalRotationApp
  \/ ApplyRotationApp
  \/ RotateGeometryApp
  \/ ScaleGeometryApp
  \/ GetMercatorScaleApp

AppSpec == AppInit /\ [][AppNext]_vars

(***************************************************************************)
(* The load effect of App.tsx.  What fetch, Response.json, Response.text,   *)
(* d3.tsvParse, topojson.feature, d3.geoCentroid and the projection return  *)
(* is given: they are libraries.                                            *)
(***************************************************************************)

\* Runs of the load effect in one life of the page, at most.
MaxLoads == 2

\* No call of the engine is followed while the page is.
NoCall ==
  /\ call = Null
  /\ pc = "none"
  /\ rotation = Null
  /\ result = Null
  /\ restored = Null
  /\ heap = <<>>
  /\ input = 0
  /\ output = 0
  /\ scaled = Null
  /\ repeated = Null

\* collection.features: a country of COUNTRY_ORDER, a feature without an id, and a
\* country that COUNTRY_META does not know and that has no name of its own.
Features ==
  << [id |-> "76", name |-> "Brazil",
      geometry |-> [type |-> "LineString",
                    coordinates |-> <<Degrees(-70, -10), Degrees(-50, -10)>>]],
     [id |-> NoId, name |-> NoId, geometry |-> Null],
     [id |-> "10", name |-> NoId,
      geometry |-> [type |-> "Point", coordinates |-> Degrees(30, -80)]] >>

\* What topoResponse.json() resolves to: data with a countries object, data without.
Topologies == { [objects |-> [countries |-> Features]], [objects |-> [land |-> <<>>]] }

\* The lookup loadCountryNames fills from the rows of the names file.
NamesOfFile == [id \in {"10", "76"} |-> IF id = "10" THEN "Antarctica" ELSE "Brazil"]

\* d3.geoCentroid(feature)
geoCentroid(feature) == IF feature.id = "76" THEN Degrees(-60, -10) ELSE Degrees(30, -80)

\* projection([lng, lat]) of geoMercator().scale(175).translate([550, 335])
projection(lonLat) == IF lonLat = Degrees(-60, -10) THEN <<367, 366>> ELSE <<642, 761>>

\* The place of a name in the order of localeCompare.
NameRank(name) ==
  CASE name = "Antarctica" -> 1
    [] name = "Brazil" -> 2
    [] OTHER -> 3

\* meta?.name ?? nameLookup.get(id) ?? feature.properties?.name ?? `Country ${id}`
CountryName(feature, nameLookup) ==
  IF feature.id \in DOMAIN COUNTRY_META THEN COUNTRY_META[feature.id]
  ELSE IF feature.id \in DOMAIN nameLookup THEN nameLookup[feature.id]
  ELSE IF feature.name # NoId THEN feature.name
  ELSE "Country " \o feature.id

\* The record the map makes of a feature.
CountryDatum(feature, nameLookup) ==
  [id |-> feature.id,
   name |-> CountryName(feature, nameLookup),
   feature |-> feature,
   originalCentroid |-> geoCentroid(feature),
   globeCentroid |-> geoCentroid(feature),
   centroidScreen |-> projection(geoCentroid(feature)),
   offset |-> [x |-> 0, y |-> 0]]

\* array.filter(keep)
RECURSIVE WithId(_)
WithId(features) ==
  IF features = <<>> THEN <<>>
  ELSE IF Head(features).id # NoId THEN <<Head(features)>> \o WithId(Tail(features))
  ELSE WithId(Tail(features))

\* The sorted array with one more record, after the records that do not sort after it.
RECURSIVE InsertByName(_, _)
InsertByName(sorted, datum) ==
  IF sorted = <<>> THEN <<datum>>
  ELSE IF NameRank(datum.name) < NameRank(Head(sorted).name)
       THEN <<datum>> \o sorted
       ELSE <<Head(sorted)>> \o InsertByName(Tail(sorted), datum)

\* array.sort((a, b) => a.name.localeCompare(b.name)), a stable sort
RECURSIVE SortByName(_)
SortByName(array) ==
  IF array = <<>> THEN <<>>
  ELSE InsertByName(SortByName(SubSeq(array, 1, Len(array) - 1)), array[Len(array)])

\* prepared
Prepared(allFeatures, nameLookup) ==
  LET kept == WithId(allFeatures)
  IN  SortByName([i \in DOMAIN kept |-> CountryDatum(kept[i], nameLookup)])

\* COUNTRY_ORDER.map(String).filter((id) => availableIds.has(id))
RECURSIVE Available(_, _)
Available(ids, prepared) ==
  IF ids = <<>> THEN <<>>
  ELSE IF \E i \in DOMAIN prepared : prepared[i].id = Head(ids)
       THEN <<Head(ids)>> \o Available(Tail(ids), prepared)
       ELSE Available(Tail(ids), prepared)

\* initialDraggableIds
InitialDraggableIds(prepared) ==
  IF Available(COUNTRY_ORDER, prepared) # <<>> THEN Available(COUNTRY_ORDER, prepared)
  ELSE [i \in 1..Min(6, Len(prepared)) |-> prepared[i].id]

\* initialDraggableIds[0] ?? prepared[0]?.id ?? null
InitialSelectedId(prepared) ==
  IF InitialDraggableIds(prepared) # <<>> THEN InitialDraggableIds(prepared)[1]
  ELSE IF prepared # <<>> THEN prepared[1].id
  ELSE NoId

\* How an awaited promise of run i settles.  Only cleanup calls controller.abort().
Settled(i) == {"ok", "not ok", "failed"} \cup (IF loads[i].cancelled THEN {"aborted"} ELSE {})

\* The effect runs, after the cleanup of the run before: loadData() up to its first
\* await.
LoadData ==
  /\ Len(loads) < MaxLoads
  /\ IF loads = <<>> THEN TRUE ELSE loads[Len(loads)].cancelled
  /\ loads' = Append(loads, [cancelled |-> FALSE, pc |-> "topo", nameLookup |-> <<>>])
  /\ loading' = TRUE
  /\ UNCHANGED <<engine, countries, worldFeatures, selectedId, draggingId, draggableIds,
                 error, activeView, globeDragMode, globeModifierPressed,
                 solarSystemEnabled, planetCountryId, planetCountryCentroid,
                 planetRotation, globeRotation, globeDragging, planetDragging,
                 dragState, globeDragState, globeCountryDragState,
                 planetCountryDragState, planetDragState, gestures>>

\* The cleanup of the effect: cancelled = true; controller.abort()
Cleanup ==
  /\ loads # <<>>
  /\ ~loads[Len(loads)].cancelled
  /\ loads' = [loads EXCEPT ![Len(loads)].cancelled = TRUE]
  /\ UNCHANGED <<engine, countries, worldFeatures, selectedId, draggingId, draggableIds,
                 loading, error, activeView, globeDragMode, globeModifierPressed,
                 solarSystemEnabled, planetCountryId, planetCountryCentroid,
                 planetRotation, globeRotation, globeDragging, planetDragging,
                 dragState, globeDragState, globeCountryDragState,
                 planetCountryDragState, planetDragState, gestures>>

\* What the states a load writes keep when a step of a load writes none of them.
Written == <<countries, worldFeatures, selectedId, draggableIds, loading, error>>

\* What no step of a load writes.
Unloaded ==
  <<engine, draggingId, activeView, globeDragMode, globeModifierPressed,
    solarSystemEnabled, planetCountryId, planetCountryCentroid, planetRotation,
    globeRotation, globeDragging, planetDragging, dragState, globeDragState,
    globeCountryDragState, planetCountryDragState, planetDragState, gestures>>

\* The catch of loadData without its test of cancelled.
CaughtWithoutTest(i, message) ==
  /\ loads' = [loads EXCEPT ![i].pc = "done"]
  /\ error' = message
  /\ loading' = FALSE
  /\ UNCHANGED <<countries, worldFeatures, selectedId, draggableIds>>

\* The catch of loadData, run i having thrown an error of this message.
Caught(i, message) ==
  /\ loads' = [loads EXCEPT ![i].pc = "done"]
  /\ IF loads[i].cancelled
     THEN UNCHANGED <<error, loading>>
     ELSE error' = message /\ loading' = FALSE
  /\ UNCHANGED <<countries, worldFeatures, selectedId, draggableIds>>

\* Run i goes on to the next await, writing nothing.
Awaits(i, next, nameLookup) ==
  /\ loads' = [loads EXCEPT ![i].pc = next, ![i].nameLookup = nameLookup]
  /\ UNCHANGED Written

\* await fetch(WORLD_TOPO_URL, ...) settles.
TopoFetched ==
  /\ \E i \in DOMAIN loads :
       /\ loads[i].pc = "topo"
       /\ \E settled \in Settled(i) :
            CASE settled = "ok" -> Awaits(i, "names", <<>>)
              [] settled = "not ok" -> Caught(i, "Unable to load map data.")
              [] settled = "failed" -> Caught(i, "Failed to fetch")
              [] settled = "aborted" -> Caught(i, "The operation was aborted.")
  /\ UNCHANGED Unloaded

\* await fetch(WORLD_NAMES_URL, ...) in loadCountryNames settles: an AbortError is
\* thrown on, another error ends in the empty lookup.
NamesFetched ==
  /\ \E i \in DOMAIN loads :
       /\ loads[i].pc = "names"
       /\ \E settled \in Settled(i) :
            CASE settled = "ok" -> Awaits(i, "text", <<>>)
              [] settled = "not ok" -> Awaits(i, "json", <<>>)
              [] settled = "failed" -> Awaits(i, "json", <<>>)
              [] settled = "aborted" -> Caught(i, "The operation was aborted.")
  /\ UNCHANGED Unloaded

\* await response.text() in loadCountryNames settles, and the rows are parsed.
NamesRead ==
  /\ \E i \in DOMAIN loads :
       /\ loads[i].pc = "text"
       /\ \E settled \in Settled(i) \ {"not ok"} :
            CASE settled = "ok" -> Awaits(i, "json", NamesOfFile)
              [] settled = "failed" -> Awaits(i, "json", <<>>)
              [] settled = "aborted" -> Caught(i, "The operation was aborted.")
  /\ UNCHANGED Unloaded

\* The end of the try block of loadData: the countries are prepared and, the run not
\* cancelled, written.
Loaded(i, topoData) ==
  LET allFeatures == topoData.objects.countries
      prepared == Prepared(allFeatures, loads[i].nameLookup)
  IN  /\ loads' = [loads EXCEPT ![i].pc = "done"]
      /\ IF loads[i].cancelled
         THEN UNCHANGED Written
         ELSE /\ countries' = prepared
              /\ worldFeatures' = allFeatures
              /\ selectedId' = InitialSelectedId(prepared)
              /\ draggableIds' = InitialDraggableIds(prepared)
              /\ loading' = FALSE
              /\ UNCHANGED error

\* await topoResponse.json() settles.
TopoParsed ==
  /\ \E i \in DOMAIN loads :
       /\ loads[i].pc = "json"
       /\ \/ \E topoData \in Topologies :
               IF "countries" \in DOMAIN topoData.objects
               THEN Loaded(i, topoData)
               ELSE Caught(i, "Unexpected map data format.")
          \/ \E settled \in Settled(i) \ {"ok", "not ok"} :
               Caught(i, IF settled = "aborted" THEN "The operation was aborted."
                         ELSE "Unexpected end of JSON input")
  /\ UNCHANGED Unloaded

LoadInit == Constructed /\ NoCall

LoadNext ==
  \/ LoadData
  \/ Cleanup
  \/ TopoFetched
  \/ NamesFetched
  \/ NamesRead
  \/ TopoParsed

LoadSpec == LoadInit /\ [][LoadNext]_vars

\* Every promise awaited settles, and the code after the await runs.
FairLoadSpec ==
  LoadSpec /\ WF_vars(TopoFetched) /\ WF_vars(NamesFetched) /\ WF_vars(NamesRead)
           /\ WF_vars(TopoParsed)

(***************************************************************************)
(* The handlers of App.tsx, on the page its load effect has loaded.  What   *)
(* a pointer event holds is given: its pointer, its button, its place, and  *)
(* the point of the globe or of the planet that d3 finds at its place       *)
(* (NoLonLat beside the sphere).                                            *)
(***************************************************************************)

\* Pointer-down events that begin a drag in one life of the page, at most.
MaxGestures == 2

\* event.pointerId of a pointer-move, pointer-up or pointer-cancel event
PointerIds == {1, 2}

\* event.pointerId of a pointer-down event
PressPointerIds == {1}

\* event.button: the main button and another.
Buttons == {0, 2}

\* The places of the pointer: event.clientX and event.clientY, and the point of the
\* globe and of the planet that d3 finds there.  The first two are on the globe,
\* the third is on the planet, the last is far beyond the map and both spheres.
OnGlobe == [x |-> 100, y |-> 100, globe |-> Degrees(0, 0), planet |-> NoLonLat]

AlsoOnGlobe == [x |-> 400, y |-> 300, globe |-> Degrees(60, 30), planet |-> NoLonLat]

OnPlanet == [x |-> 900, y |-> 500, globe |-> NoLonLat, planet |-> Degrees(0, 60)]

FarAway == [x |-> -2500, y |-> -2500, globe |-> NoLonLat, planet |-> NoLonLat]

\* Where a pointer-down event is.
PressPoints == {OnGlobe}

\* Where a pointer-move, pointer-up or pointer-cancel event is.
ClientPoints == {AlsoOnGlobe, OnPlanet, FarAway}

\* getGlobeLonLatFromClient(event.clientX, event.clientY)
getGlobeLonLatFromClient(client) == client.globe

\* getPlanetLonLatFromClient(event.clientX, event.clientY)
getPlanetLonLatFromClient(client) == client.planet

\* What no handler writes.
loaded == <<worldFeatures, loading, error, loads>>

\* The refs of the drags of the globe view.
globeRefs == <<globeDragState, globeCountryDragState, planetCountryDragState, planetDragState>>

\* array.includes(id)
Includes(array, id) == \E i \in DOMAIN array : array[i] = id

\* const globeActiveMode = globeModifierPressed ? 'country' : globeDragMode
globeActiveMode == IF globeModifierPressed THEN "country" ELSE globeDragMode

\* {!loading && !error && (<svg className="map-svg" ...>)} of the map view
MapShown == activeView = "map" /\ ~loading /\ error = NoId

\* {!loading && !error && (<div className="globe-canvas">...)} of the globe view
GlobeShown == activeView = "globe" /\ ~loading /\ error = NoId

\* countries.find((country) => country.id === planetCountryId) ?? null, as an index
\* (0 for null)
planetCountry ==
  IF \E i \in DOMAIN countries : countries[i].id = planetCountryId
  THEN CHOOSE i \in DOMAIN countries :
         /\ countries[i].id = planetCountryId
         /\ \A j \in 1..(i - 1) : countries[j].id # planetCountryId
  ELSE 0

\* ref.current && ref.current.pointerId === event.pointerId
Holds(ref, pointerId) == IF ref = Null THEN FALSE ELSE ref.pointerId = pointerId

\* clampedOffset of handleDragMove with the offset as it is next.
nextOffset(drag, client) ==
  [x |-> drag.origin.x + (client.x - drag.start.x),
   y |-> drag.origin.y + (client.y - drag.start.y)]

\* clampedOffset of handleDragMove
clampedOffset(drag, client) ==
  LET dx == client.x - drag.start.x
      dy == client.y - drag.start.y
      centroidX == drag.centroid[1]
      centroidY == drag.centroid[2]
      clampedCentroidX ==
        Min(Max(centroidX + (drag.origin.x + dx), MAP_PADDING), MAP_WIDTH - MAP_PADDING)
      clampedCentroidY ==
        Min(Max(centroidY + (drag.origin.y + dy), MAP_PADDING), MAP_HEIGHT - MAP_PADDING)
  IN  [x |-> clampedCentroidX - centroidX, y |-> clampedCentroidY - centroidY]

\* nextRotation of handleGlobeMove without the clamp.
nextRotationUnclamped(drag, client) ==
  <<drag.rotation[1] + (client.x - drag.start.x) * GLOBE_DRAG_SENSITIVITY,
    drag.rotation[2] - (client.y - drag.start.y) * GLOBE_DRAG_SENSITIVITY,
    0>>

\* nextRotation of handleGlobeMove, of the globe and of the planet
nextRotation(drag, client) ==
  <<drag.rotation[1] + (client.x - drag.start.x) * GLOBE_DRAG_SENSITIVITY,
    clampApp(drag.rotation[2] - (client.y - drag.start.y) * GLOBE_DRAG_SENSITIVITY,
             -MAX_GLOBE_TILT, MAX_GLOBE_TILT),
    0>>

\* onPointerDown of a country of the map, one of orderedCountries.
handlePointerDown ==
  /\ MapShown
  /\ gestures < MaxGestures
  /\ \E i \in DOMAIN countries, pointerId \in PressPointerIds, client \in PressPoints :
       /\ Includes(draggableIds, countries[i].id)
       /\ IF ~Includes(draggableIds, countries[i].id)
          THEN UNCHANGED <<dragState, draggingId, gestures>>
          ELSE /\ dragState' = [id |-> countries[i].id,
                                pointerId |-> pointerId,
                                start |-> client,
                                origin |-> countries[i].offset,
                                centroid |-> countries[i].centroidScreen]
               /\ draggingId' = countries[i].id
               /\ gestures' = gestures + 1
       /\ selectedId' = countries[i].id
  /\ UNCHANGED <<engine, loaded, globeRefs, countries, draggableIds, activeView,
                 globeDragMode, globeModifierPressed, solarSystemEnabled,
                 planetCountryId, planetCountryCentroid, planetRotation,
                 globeRotation, globeDragging, planetDragging>>

\* handleDragMove(event), the pointer of the event at client.
DragMoved(pointerId, client) ==
  /\ countries' =
       IF ~Holds(dragState, pointerId) THEN countries
       ELSE [i \in DOMAIN countries |->
               IF countries[i].id = dragState.id
               THEN [countries[i] EXCEPT !.offset = clampedOffset(dragState, client)]
               ELSE countries[i]]
  /\ UNCHANGED <<engine, loaded, globeRefs, selectedId, draggingId, draggableIds,
                 dragState, activeView, globeDragMode, globeModifierPressed,
                 solarSystemEnabled, planetCountryId, planetCountryCentroid,
                 planetRotation, globeRotation, globeDragging, planetDragging,
                 gestures>>

\* pointermove on the window while draggingId is set.
handleDragMove ==
  /\ draggingId # NoId
  /\ \E pointerId \in PointerIds, client \in ClientPoints : DragMoved(pointerId, client)

\* pointerup or pointercancel on the window while draggingId is set.
handleDragEnd ==
  /\ draggingId # NoId
  /\ \E pointerId \in PointerIds :
       IF ~Holds(dragState, pointerId)
       THEN UNCHANGED <<dragState, draggingId>>
       ELSE dragState' = Null /\ draggingId' = NoId
  /\ UNCHANGED <<engine, loaded, globeRefs, countries, selectedId, draggableIds,
                 activeView, globeDragMode, globeModifierPressed,
                 solarSystemEnabled, planetCountryId, planetCountryCentroid,
                 planetRotation, globeRotation, globeDragging, planetDragging,
                 gestures>>

\* prev.filter((entry) => entry !== id)
RECURSIVE Without(_, _)
Without(array, id) ==
  IF array = <<>> THEN <<>>
  ELSE IF Head(array) = id THEN Without(Tail(array), id)
  ELSE <<Head(array)>> \o Without(Tail(array), id)

\* onChange of the checkbox of a country, in the panel of the map view.
toggleDraggable ==
  /\ activeView = "map"
  /\ \E i \in DOMAIN countries :
       LET id == countries[i].id
           next == IF Includes(draggableIds, id) THEN Without(draggableIds, id)
                   ELSE Append(draggableIds, id)
       IN  /\ draggableIds' = next
           /\ IF ~Includes(next, id)
                 /\ (IF dragState = Null THEN FALSE ELSE dragState.id = id)
              THEN dragState' = Null /\ draggingId' = NoId
              ELSE UNCHANGED <<dragState, draggingId>>
  /\ UNCHANGED <<engine, loaded, globeRefs, countries, selectedId, activeView,
                 globeDragMode, globeModifierPressed, solarSystemEnabled,
                 planetCountryId, planetCountryCentroid, planetRotation,
                 globeRotation, globeDragging, planetDragging, gestures>>

\* onClick of "Reset positions"
resetPositions ==
  /\ activeView = "map"
  /\ dragState' = Null
  /\ draggingId' = NoId
  /\ countries' = [i \in DOMAIN countries |->
                     [countries[i] EXCEPT !.offset = [x |-> 0, y |-> 0]]]
  /\ UNCHANGED <<engine, loaded, globeRefs, selectedId, draggableIds, activeView,
                 globeDragMode, globeModifierPressed, solarSystemEnabled,
                 planetCountryId, planetCountryCentroid, planetRotation,
                 globeRotation, globeDragging, planetDragging, gestures>>

\* onClick of a country of the legend of the map view
selectCountry ==
  /\ activeView = "map"
  /\ \E i \in DOMAIN countries :
       /\ Includes(draggableIds, countries[i].id)
       /\ selectedId' = countries[i].id
  /\ UNCHANGED <<engine, loaded, globeRefs, countries, draggingId, draggableIds,
                 dragState, activeView, globeDragMode, globeModifierPressed,
                 solarSystemEnabled, planetCountryId, planetCountryCentroid,
                 planetRotation, globeRotation, globeDragging, planetDragging,
                 gestures>>

\* onClick of a tab, and the effect of activeView: away from the globe the modifier
\* is released.
setActiveView ==
  /\ \E view \in {"map", "globe"} :
       /\ activeView' = view
       /\ globeModifierPressed' = IF view # "globe" THEN FALSE ELSE globeModifierPressed
  /\ UNCHANGED <<engine, loaded, globeRefs, countries, selectedId, draggingId,
                 draggableIds, dragState, globeDragMode, solarSystemEnabled,
                 planetCountryId, planetCountryCentroid, planetRotation,
                 globeRotation, globeDragging, planetDragging, gestures>>

\* onClick of "Rotate globe" or "Move countries"
setGlobeDragMode ==
  /\ activeView = "globe"
  /\ \E mode \in {"rotate", "country"} : globeDragMode' = mode
  /\ UNCHANGED <<engine, loaded, globeRefs, countries, selectedId, draggingId,
                 draggableIds, dragState, activeView, globeModifierPressed,
                 solarSystemEnabled, planetCountryId, planetCountryCentroid,
                 planetRotation, globeRotation, globeDragging, planetDragging,
                 gestures>>

\* onClick of "Solar system on/off"
setSolarSystemEnabled ==
  /\ activeView = "globe"
  /\ solarSystemEnabled' = ~solarSystemEnabled
  /\ UNCHANGED <<engine, loaded, globeRefs, countries, selectedId, draggingId,
                 draggableIds, dragState, activeView, globeDragMode,
                 globeModifierPressed, planetCountryId, planetCountryCentroid,
                 planetRotation, globeRotation, globeDragging, planetDragging,
                 gestures>>

\* keydown of Meta or Control in the globe view
handleKeyDown ==
  /\ activeView = "globe"
  /\ globeModifierPressed' = TRUE
  /\ UNCHANGED <<engine, loaded, globeRefs, countries, selectedId, draggingId,
                 draggableIds, dragState, activeView, globeDragMode,
                 solarSystemEnabled, planetCountryId, planetCountryCentroid,
                 planetRotation, globeRotation, globeDragging, planetDragging,
                 gestures>>

\* clearModifier: keyup of Meta or Control, blur, visibilitychange in the globe view
clearModifier ==
  /\ activeView = "globe"
  /\ globeModifierPressed' = FALSE
  /\ globeCountryDragState' = Null
  /\ planetCountryDragState' = Null
  /\ planetDragState' = Null
  /\ planetDragging' = FALSE
  /\ globeDragging' = IF globeDragState = Null THEN FALSE ELSE globeDragging
  /\ UNCHANGED <<engine, loaded, countries, selectedId, draggingId, draggableIds,
                 dragState, globeDragState, activeView, globeDragMode,
                 solarSystemEnabled, planetCountryId, planetCountryCentroid,
                 planetRotation, globeRotation, gestures>>

\* onClick of a country of the legend of the globe view
focusOnCountry ==
  /\ activeView = "globe"
  /\ \E i \in DOMAIN countries :
       /\ Includes(draggableIds, countries[i].id)
       /\ selectedId' = countries[i].id
       /\ globeRotation' = <<-countries[i].globeCentroid[1], -countries[i].globeCentroid[2], 0>>
  /\ UNCHANGED <<engine, loaded, globeRefs, countries, draggingId, draggableIds,
                 dragState, activeView, globeDragMode, globeModifierPressed,
                 solarSystemEnabled, planetCountryId, planetCountryCentroid,
                 planetRotation, globeDragging, planetDragging, gestures>>

\* resetGlobeRotation with the two centroids of a country taken for each other.
resetGlobeRotationFromGlobeCentroid ==
  /\ activeView = "globe"
  /\ globeRotation' = GLOBE_DEFAULT_ROTATION
  /\ planetRotation' = PLANET_DEFAULT_ROTATION
  /\ planetCountryId' = NoId
  /\ planetCountryCentroid' = NoLonLat
  /\ globeDragState' = Null
  /\ globeCountryDragState' = Null
  /\ planetCountryDragState' = Null
  /\ planetDragState' = Null
  /\ globeDragging' = FALSE
  /\ planetDragging' = FALSE
  /\ countries' = [i \in DOMAIN countries |->
                     [countries[i] EXCEPT !.originalCentroid = countries[i].globeCentroid]]
  /\ UNCHANGED <<engine, loaded, selectedId, draggingId, draggableIds, dragState,
                 activeView, globeDragMode, globeModifierPressed,
                 solarSystemEnabled, gestures>>

\* onClick of "Reset scene"
resetGlobeRotation ==
  /\ activeView = "globe"
  /\ globeRotation' = GLOBE_DEFAULT_ROTATION
  /\ planetRotation' = PLANET_DEFAULT_ROTATION
  /\ planetCountryId' = NoId
  /\ planetCountryCentroid' = NoLonLat
  /\ globeDragState' = Null
  /\ globeCountryDragState' = Null
  /\ planetCountryDragState' = Null
  /\ planetDragState' = Null
  /\ globeDragging' = FALSE
  /\ planetDragging' = FALSE
  /\ countries' = [i \in DOMAIN countries |->
                     [countries[i] EXCEPT !.globeCentroid = countries[i].originalCentroid]]
  /\ UNCHANGED <<engine, loaded, selectedId, draggingId, draggableIds, dragState,
                 activeView, globeDragMode, globeModifierPressed,
                 solarSystemEnabled, gestures>>

\* onPointerDown of the svg of the globe
handleGlobePointerDown ==
  /\ GlobeShown
  /\ gestures < MaxGestures
  /\ \E button \in Buttons, pointerId \in PressPointerIds, client \in PressPoints :
       IF globeActiveMode # "rotate" \/ button # 0
       THEN UNCHANGED <<globeRefs, planetDragging, globeDragging, gestures>>
       ELSE /\ globeCountryDragState' = Null
            /\ planetCountryDragState' = Null
            /\ planetDragState' = Null
            /\ planetDragging' = FALSE
            /\ globeDragState' = [pointerId |-> pointerId, start |-> client,
                                  rotation |-> globeRotation]
            /\ globeDragging' = TRUE
            /\ gestures' = gestures + 1
  /\ UNCHANGED <<engine, loaded, countries, selectedId, draggingId, draggableIds,
                 dragState, activeView, globeDragMode, globeModifierPressed,
                 solarSystemEnabled, planetCountryId, planetCountryCentroid,
                 planetRotation, globeRotation>>

\* onPointerDown of a country of the globe, one of globeHighlightCountries
handleGlobeCountryPointerDown ==
  /\ GlobeShown
  /\ gestures < MaxGestures
  /\ \E i \in DOMAIN countries, button \in Buttons, pointerId \in PressPointerIds,
        client \in PressPoints \cup {OnPlanet} :
       /\ Includes(draggableIds, countries[i].id)
       /\ IF \/ globeActiveMode # "country" \/ button # 0
             \/ getGlobeLonLatFromClient(client) = NoLonLat
          THEN UNCHANGED <<globeRefs, planetDragging, globeDragging, selectedId, gestures>>
          ELSE /\ globeDragState' = Null
               /\ planetDragState' = Null
               /\ planetDragging' = FALSE
               /\ planetCountryDragState' = Null
               /\ globeCountryDragState' = [id |-> countries[i].id,
                                            pointerId |-> pointerId,
                                            startLonLat |-> getGlobeLonLatFromClient(client),
                                            startCentroid |-> countries[i].globeCentroid]
               /\ selectedId' = countries[i].id
               /\ globeDragging' = TRUE
               /\ gestures' = gestures + 1
  /\ UNCHANGED <<engine, loaded, countries, draggingId, draggableIds, dragState,
                 activeView, globeDragMode, globeModifierPressed,
                 solarSystemEnabled, planetCountryId, planetCountryCentroid,
                 planetRotation, globeRotation>>

\* onPointerDown of the country on the planet, drawn when planetCountryFeature and
\* planetCountry are not null
handlePlanetCountryPointerDown ==
  /\ GlobeShown
  /\ solarSystemEnabled
  /\ planetCountry # 0
  /\ planetCountryCentroid # NoLonLat
  /\ gestures < MaxGestures
  /\ \E button \in Buttons, pointerId \in PressPointerIds,
        client \in PressPoints \cup {OnPlanet} :
       IF \/ globeActiveMode # "country" \/ planetCountryId = NoId \/ ~solarSystemEnabled
          \/ button # 0 \/ getPlanetLonLatFromClient(client) = NoLonLat
       THEN UNCHANGED <<globeRefs, planetDragging, globeDragging, selectedId,
                        planetCountryCentroid, gestures>>
       ELSE /\ globeDragState' = Null
            /\ globeCountryDragState' = Null
            /\ planetDragState' = Null
            /\ planetDragging' = FALSE
            /\ planetCountryDragState' = [id |-> planetCountryId, pointerId |-> pointerId]
            /\ planetCountryCentroid' = getPlanetLonLatFromClient(client)
            /\ selectedId' = planetCountryId
            /\ globeDragging' = TRUE
            /\ gestures' = gestures + 1
  /\ UNCHANGED <<engine, loaded, countries, draggingId, draggableIds, dragState,
                 activeView, globeDragMode, globeModifierPressed,
                 solarSystemEnabled, planetCountryId, planetRotation, globeRotation>>

\* handlePlanetPointerDown without the globe rotation drag being given up.
handlePlanetPointerDownKeepingGlobeDrag ==
  /\ GlobeShown
  /\ solarSystemEnabled
  /\ gestures < MaxGestures
  /\ \E button \in Buttons, pointerId \in PressPointerIds, client \in PressPoints :
       IF globeActiveMode # "rotate" \/ ~solarSystemEnabled \/ button # 0
       THEN UNCHANGED <<globeRefs, planetDragging, globeDragging, gestures>>
       ELSE /\ globeCountryDragState' = Null
            /\ planetCountryDragState' = Null
            /\ planetDragState' = [pointerId |-> pointerId, start |-> client,
                                   rotation |-> planetRotation]
            /\ planetDragging' = TRUE
            /\ globeDragging' = TRUE
            /\ gestures' = gestures + 1
            /\ UNCHANGED globeDragState
  /\ UNCHANGED <<engine, loaded, countries, selectedId, draggingId, draggableIds,
                 dragState, activeView, globeDragMode, globeModifierPressed,
                 solarSystemEnabled, planetCountryId, planetCountryCentroid,
                 planetRotation, globeRotation>>

\* onPointerDown of the svg of the planet, drawn when solarSystemEnabled
handlePlanetPointerDown ==
  /\ GlobeShown
  /\ solarSystemEnabled
  /\ gestures < MaxGestures
  /\ \E button \in Buttons, pointerId \in PressPointerIds, client \in PressPoints :
       IF globeActiveMode # "rotate" \/ ~solarSystemEnabled \/ button # 0
       THEN UNCHANGED <<globeRefs, planetDragging, globeDragging, gestures>>
       ELSE /\ globeDragState' = Null
            /\ globeCountryDragState' = Null
            /\ planetCountryDragState' = Null
            /\ planetDragState' = [pointerId |-> pointerId, start |-> client,
                                   rotation |-> planetRotation]
            /\ planetDragging' = TRUE
            /\ globeDragging' = TRUE
            /\ gestures' = gestures + 1
  /\ UNCHANGED <<engine, loaded, countries, selectedId, draggingId, draggableIds,
                 dragState, activeView, globeDragMode, globeModifierPressed,
                 solarSystemEnabled, planetCountryId, planetCountryCentroid,
                 planetRotation, globeRotation>>

\* handleGlobeMove(event), the pointer of the event at client: the first of the
\* four drags that holds the pointer is followed.
GlobeMoved(pointerId, client) ==
  /\ CASE Holds(globeDragState, pointerId) ->
              /\ globeRotation' = nextRotation(globeDragState, client)
              /\ UNCHANGED <<planetRotation, countries, planetCountryCentroid>>
         [] ~Holds(globeDragState, pointerId) /\ Holds(planetDragState, pointerId) ->
              /\ planetRotation' = nextRotation(planetDragState, client)
              /\ UNCHANGED <<globeRotation, countries, planetCountryCentroid>>
         [] /\ ~Holds(globeDragState, pointerId) /\ ~Holds(planetDragState, pointerId)
            /\ Holds(globeCountryDragState, pointerId) ->
              /\ countries' =
                   IF getGlobeLonLatFromClient(client) = NoLonLat THEN countries
                   ELSE [i \in DOMAIN countries |->
                           IF countries[i].id = globeCountryDragState.id
                           THEN [countries[i] EXCEPT !.globeCentroid =
                                   RotateApp(createSphericalRotationApp(
                                               globeCountryDragState.startLonLat,
                                               getGlobeLonLatFromClient(client)),
                                             globeCountryDragState.startCentroid)]
                           ELSE countries[i]]
              /\ UNCHANGED <<globeRotation, planetRotation, planetCountryCentroid>>
         [] /\ ~Holds(globeDragState, pointerId) /\ ~Holds(planetDragState, pointerId)
            /\ ~Holds(globeCountryDragState, pointerId)
            /\ Holds(planetCountryDragState, pointerId) ->
              /\ planetCountryCentroid' =
                   IF getPlanetLonLatFromClient(client) = NoLonLat
                   THEN planetCountryCentroid
                   ELSE getPlanetLonLatFromClient(client)
              /\ UNCHANGED <<globeRotation, planetRotation, countries>>
         [] OTHER ->
              UNCHANGED <<globeRotation, planetRotation, countries, planetCountryCentroid>>
  /\ UNCHANGED <<engine, loaded, globeRefs, selectedId, draggingId, draggableIds,
                 dragState, activeView, globeDragMode, globeModifierPressed,
                 solarSystemEnabled, planetCountryId, globeDragging, planetDragging,
                 gestures>>

\* pointermove on the window while globeDragging is set.
handleGlobeMove ==
  /\ globeDragging
  /\ \E pointerId \in PointerIds, client \in ClientPoints : GlobeMoved(pointerId, client)

\* pointerup or pointercancel on the window while globeDragging is set: each drag
\* that holds the pointer ends, a country dragged from the globe is dropped on the
\* planet when the pointer is on it, and globeDragging is cleared when no drag is
\* left.
handleGlobeEnd ==
  /\ globeDragging
  /\ \E pointerId \in PointerIds, client \in ClientPoints :
       LET planetLonLat == getPlanetLonLatFromClient(client)
           dropped == /\ Holds(globeCountryDragState, pointerId)
                      /\ solarSystemEnabled
                      /\ planetLonLat # NoLonLat
       IN  /\ globeDragState' =
                IF Holds(globeDragState, pointerId) THEN Null ELSE globeDragState
           /\ planetDragState' =
                IF Holds(planetDragState, pointerId) THEN Null ELSE planetDragState
           /\ planetDragging' =
                IF Holds(planetDragState, pointerId) THEN FALSE ELSE planetDragging
           /\ planetCountryId' =
                IF dropped THEN globeCountryDragState.id ELSE planetCountryId
           /\ planetCountryCentroid' =
                IF dropped THEN planetLonLat ELSE planetCountryCentroid
           /\ globeCountryDragState' =
                IF Holds(globeCountryDragState, pointerId) THEN Null
                ELSE globeCountryDragState
           /\ planetCountryDragState' =
                IF Holds(planetCountryDragState, pointerId) THEN Null
                ELSE planetCountryDragState
           /\ globeDragging' =
                IF /\ globeDragState' = Null /\ globeCountryDragState' = Null
                   /\ planetCountryDragState' = Null /\ planetDragState' = Null
                THEN FALSE ELSE globeDragging
  /\ UNCHANGED <<engine, loaded, countries, selectedId, draggingId, draggableIds,
                 dragState, activeView, globeDragMode, globeModifierPressed,
                 solarSystemEnabled, planetRotation, globeRotation, gestures>>

\* The page once its load effect has loaded the countries of the data, the names
\* of the file read.
PageInit ==
  /\ NoCall
  /\ NothingHandled
  /\ countries = Prepared(Features, NamesOfFile)
  /\ worldFeatures = Features
  /\ selectedId = InitialSelectedId(countries)
  /\ draggableIds = InitialDraggableIds(countries)
  /\ loading = FALSE
  /\ error = NoId
  /\ loads = <<[cancelled |-> FALSE, pc |-> "done", nameLookup |-> NamesOfFile]>>

PageNext ==
  \/ handlePointerDown
  \/ handleDragMove
  \/ handleDragEnd
  \/ toggleDraggable
  \/ resetPositions
  \/ selectCountry
  \/ setActiveView
  \/ setGlobeDragMode
  \/ setSolarSystemEnabled
  \/ handleKeyDown
  \/ clearModifier
  \/ focusOnCountry
  \/ resetGlobeRotation
  \/ handleGlobePointerDown
  \/ handleGlobeCountryPointerDown
  \/ handlePlanetCountryPointerDown
  \/ handlePlanetPointerDown
  \/ handleGlobeMove
  \/ handleGlobeEnd

PageSpec == PageInit /\ [][PageNext]_vars

(***************************************************************************)
(* What the claims speak of.                                               *)
(***************************************************************************)

\* The great-circle distance between two LonLat points, in 1/DEG degrees.
AngularDistance(a, b) ==
  LET va == lonLatToVector(a)
      vb == lonLatToVector(b)
  IN  Atan2(Hypot(cross(va, vb)), dot(va, vb))

\* The tolerance of an angle computed in the fixed point of the model: 0.1 degree.
AngleTolerance == DEG \div 10

Close(x, y, tolerance) == Abs(x - y) <= tolerance

RECURSIVE Concat(_)
\* The sequences of a sequence, joined.
Concat(seqs) == IF seqs = <<>> THEN <<>> ELSE Head(seqs) \o Concat(Tail(seqs))

RECURSIVE PositionsOf(_)
\* The positions of a geometry of a known kind, in order.
PositionsOf(g) ==
  CASE g.type = "Point" -> <<g.coordinates>>
    [] g.type \in {"MultiPoint", "LineString"} -> g.coordinates
    [] g.type \in {"MultiLineString", "Polygon"} -> Concat(g.coordinates)
    [] g.type = "MultiPolygon" -> Concat([k \in DOMAIN g.coordinates |-> Concat(g.coordinates[k])])
    [] g.type = "GeometryCollection" ->
         Concat([k \in DOMAIN g.geometries |-> PositionsOf(g.geometries[k])])
    [] OTHER -> <<>>

LonLatOf(position) == <<position[1], position[2]>>

RotateDone == pc = "done" /\ call.fn = "rotate"

RotateGeometryDone == pc = "done" /\ call.fn = "rotateGeometry"

ScaleGeometryDone == pc \in {"done", "back"} /\ call.fn = "scaleGeometry"

\* A LonLat that no other LonLat of the valid ranges names: not a pole, whose
\* longitude is arbitrary, and not on the antimeridian, which is both 180 and -180.
Unaliased(lonLat) == Abs(lonLat[2]) < 90 * DEG /\ Abs(lonLat[1]) < 180 * DEG

\* C1, as stated: createSphericalRotation(from, to)(from) equals to, longitude and
\* latitude each within tolerance, for all valid from and to.
C1_MapsFromToTo ==
  (RotateDone /\ call.coordinate = call.from)
    => /\ Close(result[1], call.to[1], AngleTolerance)
       /\ Close(result[2], call.to[2], AngleTolerance)

\* C1, amended: createSphericalRotation(from, to)(from) is the point of the sphere
\* that to names, within tolerance of great-circle distance; it equals to longitude
\* by longitude and latitude by latitude when to is neither a pole nor on the
\* antimeridian; and when from = to the input is returned unchanged exactly.
C1_MapsFromToPointOfTo ==
  (RotateDone /\ call.coordinate = call.from)
    => /\ AngularDistance(result, call.to) <= AngleTolerance
       /\ Unaliased(call.to)
            => /\ Close(result[1], call.to[1], AngleTolerance)
               /\ Close(result[2], call.to[2], AngleTolerance)
       /\ call.from = call.to => result = call.coordinate

C1_Witness ==
  /\ RotateDone
  /\ call.from = Degrees(0, 0)
  /\ call.to = Degrees(60, 30)
  /\ call.coordinate = call.from
  /\ ~rotation.identity
  /\ result # call.coordinate

\* C2: when the angular distance between from and to is below 1e-6 rad, and so for
\* from = to, the returned function returns every point unchanged, exactly, and
\* rotateGeometry with it returns coordinates equal to the input's.
C2_IdentityCase ==
  (pc = "done" /\ call.fn \in {"rotate", "rotateGeometry"}
     /\ (call.from = call.to \/ AngleBelowEpsilon(AngularDistance(call.from, call.to))))
    => /\ call.fn = "rotate" => result = call.coordinate
       /\ call.fn = "rotateGeometry" => result = call.geometry

C2_Witness ==
  /\ RotateGeometryDone
  /\ call.from = Degrees(60, 30)
  /\ call.to = call.from
  /\ rotation.identity
  /\ Len(PositionsOf(call.geometry)) > 2
  /\ result = call.geometry

\* C3: the rotation is rigid: the angular distance between rotate(p) and rotate(q)
\* is that between p and q (the positions of a rotated geometry, two by two), and
\* the angular distance between rotate(p) and to is that between p and from.
C3_DistancePreserving ==
  /\ RotateDone =>
       Close(AngularDistance(result, call.to),
             AngularDistance(call.coordinate, call.from), AngleTolerance)
  /\ RotateGeometryDone =>
       LET ps == PositionsOf(call.geometry)
           rs == PositionsOf(result)
       IN  \A i, j \in DOMAIN ps :
             Close(AngularDistance(LonLatOf(rs[i]), LonLatOf(rs[j])),
                   AngularDistance(LonLatOf(ps[i]), LonLatOf(ps[j])), AngleTolerance)

C3_Witness ==
  /\ RotateGeometryDone
  /\ ~rotation.identity
  /\ \E i, j \in DOMAIN PositionsOf(call.geometry) :
       /\ AngularDistance(LonLatOf(PositionsOf(call.geometry)[i]),
                          LonLatOf(PositionsOf(call.geometry)[j])) > 10 * DEG
       /\ PositionsOf(result)[i] # PositionsOf(call.geometry)[i]
       /\ PositionsOf(result)[j] # PositionsOf(call.geometry)[j]

RECURSIVE Nesting(_, _)
\* The lengths of a coordinate array nested depth deep above its positions, the
\* length of each position included.
Nesting(coordinates, depth) ==
  IF depth = 0 THEN Len(coordinates)
  ELSE [i \in DOMAIN coordinates |-> Nesting(coordinates[i], depth - 1)]

RECURSIVE Shape(_)
\* A geometry without its numbers: its type tag and the length of every list.
Shape(g) ==
  CASE g.type = "Point" -> [type |-> g.type, shape |-> Nesting(g.coordinates, 0)]
    [] g.type \in {"MultiPoint", "LineString"} ->
         [type |-> g.type, shape |-> Nesting(g.coordinates, 1)]
    [] g.type \in {"MultiLineString", "Polygon"} ->
         [type |-> g.type, shape |-> Nesting(g.coordinates, 2)]
    [] g.type = "MultiPolygon" -> [type |-> g.type, shape |-> Nesting(g.coordinates, 3)]
    [] g.type = "GeometryCollection" ->
         [type |-> g.type, shape |-> [k \in DOMAIN g.geometries |-> Shape(g.geometries[k])]]
    [] OTHER -> [type |-> g.type]

\* C4: the output of rotateGeometry and of scaleGeometry has the type tag, the
\* nesting and the length of every list of its input, at every level.
C4_StructurePreserved ==
  /\ (RotateGeometryDone \/ ScaleGeometryDone) =>
       /\ Shape(result) = Shape(call.geometry)
       /\ DOMAIN result = DOMAIN call.geometry
  /\ pc = "back" => Shape(restored) = Shape(result)

C4_Witness ==
  /\ RotateGeometryDone
  /\ ~rotation.identity
  /\ call.geometry.type = "GeometryCollection"
  /\ \E k \in DOMAIN call.geometry.geometries :
       /\ call.geometry.geometries[k].type = "GeometryCollection"
       /\ call.geometry.geometries[k].geometries # <<>>
       /\ result.geometries[k] # call.geometry.geometries[k]

\* Every position of the output has the length of the input's and the same numbers
\* after longitude and latitude.
RestKept(before, after) ==
  LET ps == PositionsOf(before)
      rs == PositionsOf(after)
  IN  \A i \in DOMAIN ps :
        /\ Len(rs[i]) = Len(ps[i])
        /\ \A k \in 3..Len(ps[i]) : rs[i][k] = ps[i][k]

\* C5: a position with more than two numbers comes out of rotateGeometry and of
\* scaleGeometry with the same length and the same numbers from the third on.
C5_ExtraDimensionsKept ==
  /\ (RotateGeometryDone \/ ScaleGeometryDone) => RestKept(call.geometry, result)
  /\ pc = "back" => RestKept(result, restored)

C5_Witness ==
  /\ ScaleGeometryDone
  /\ \E i \in DOMAIN PositionsOf(call.geometry) :
       /\ Len(PositionsOf(call.geometry)[i]) > 3
       /\ PositionsOf(result)[i][1] # PositionsOf(call.geometry)[i][1]
       /\ PositionsOf(result)[i][4] = PositionsOf(call.geometry)[i][4]

\* center + (value - center) * factor, before any clamping.
Scaled(center, factor, value) == center + Mul(value - center, factor)

\* C6: after scaleGeometry every position has its latitude within -89.9 .. 89.9 and
\* its longitude within -180 .. 180, and a latitude that the scaling takes beyond
\* 89.9 (-89.9) comes out at 89.9 (-89.9) exactly.
C6_ScaleClamping ==
  /\ ScaleGeometryDone =>
       LET ps == PositionsOf(call.geometry)
           rs == PositionsOf(result)
       IN  \A i \in DOMAIN rs :
             /\ -MAX_LATITUDE <= rs[i][2] /\ rs[i][2] <= MAX_LATITUDE
             /\ -180 * DEG <= rs[i][1] /\ rs[i][1] <= 180 * DEG
             /\ Scaled(call.center[2], call.factor, ps[i][2]) > MAX_LATITUDE
                  => rs[i][2] = MAX_LATITUDE
             /\ Scaled(call.center[2], call.factor, ps[i][2]) < -MAX_LATITUDE
                  => rs[i][2] = -MAX_LATITUDE
  /\ pc = "back" =>
       \A i \in DOMAIN PositionsOf(restored) :
         /\ Abs(PositionsOf(restored)[i][2]) <= MAX_LATITUDE
         /\ Abs(PositionsOf(restored)[i][1]) <= 180 * DEG

C6_Witness ==
  /\ ScaleGeometryDone
  /\ call.center = Degrees(0, 85)
  /\ call.factor = 10 * SCALE
  /\ \E i \in DOMAIN PositionsOf(call.geometry) :
       /\ PositionsOf(call.geometry)[i][2] = 86 * DEG
       /\ PositionsOf(result)[i][2] = MAX_LATITUDE
  /\ \E i \in DOMAIN PositionsOf(call.geometry) :
       PositionsOf(result)[i][2] = -MAX_LATITUDE

\* C7: scaleGeometry takes each position [lon, lat, ...rest] to
\* clamp(center.lon + (lon - center.lon) * factor, -180, 180) and
\* clamp(center.lat + (lat - center.lat) * factor, -89.9, 89.9).
C7_ScaleFormula ==
  ScaleGeometryDone =>
    LET ps == PositionsOf(call.geometry)
        rs == PositionsOf(result)
    IN  \A i \in DOMAIN ps :
          /\ rs[i][1] = clamp(Scaled(call.center[1], call.factor, ps[i][1]),
                              -180 * DEG, 180 * DEG)
          /\ rs[i][2] = clamp(Scaled(call.center[2], call.factor, ps[i][2]),
                              -MAX_LATITUDE, MAX_LATITUDE)

C7_Witness ==
  /\ ScaleGeometryDone
  /\ call.center = Degrees(30, 60)
  /\ call.factor = SCALE \div 2
  /\ call.geometry.type = "Polygon"
  /\ \E i \in DOMAIN PositionsOf(call.geometry) :
       /\ LonLatOf(PositionsOf(call.geometry)[i]) = Degrees(10, 10)
       /\ LonLatOf(PositionsOf(result)[i]) = Degrees(20, 35)

\* No position of the geometry is clamped when scaled by factor around center.
Unclamped(g, center, factor) ==
  \A i \in DOMAIN PositionsOf(g) :
    /\ Abs(Scaled(center[1], factor, PositionsOf(g)[i][1])) <= 180 * DEG
    /\ Abs(Scaled(center[2], factor, PositionsOf(g)[i][2])) <= MAX_LATITUDE

\* The tolerance of a coordinate scaled there and back in the fixed point of the
\* model: 0.1 degree.
RoundTripTolerance == DEG \div 10

\* C8: for a factor f # 0, when neither step clamps a coordinate,
\* scaleGeometry(scaleGeometry(g, center, f), center, 1 / f) has the coordinates of
\* g within tolerance.
C8_RoundTripScale ==
  (/\ pc = "back"
   /\ Unclamped(call.geometry, call.center, call.factor)
   /\ Unclamped(result, call.center, Div(SCALE, call.factor)))
    => LET ps == PositionsOf(call.geometry)
           rs == PositionsOf(restored)
       IN  /\ Shape(restored) = Shape(call.geometry)
           /\ \A i \in DOMAIN ps :
                /\ Close(rs[i][1], ps[i][1], RoundTripTolerance)
                /\ Close(rs[i][2], ps[i][2], RoundTripTolerance)

C8_Witness ==
  /\ pc = "back"
  /\ call.factor = SCALE \div 10
  /\ call.center = Degrees(-10, -10)
  /\ Unclamped(call.geometry, call.center, call.factor)
  /\ Unclamped(result, call.center, Div(SCALE, call.factor))
  /\ Len(PositionsOf(call.geometry)) > 2
  /\ \E i \in DOMAIN PositionsOf(call.geometry) :
       Abs(PositionsOf(result)[i][1] - PositionsOf(call.geometry)[i][1]) > 10 * DEG

MercatorDone == pc = "done" /\ call.fn = "getMercatorScale"

\* C9: getMercatorScale(originalLat, currentLat) is cos(originalLat) / cos(currentLat)
\* (the quotient, to the nearest unit of the fixed point) with no clamping: towards
\* +-90 degrees of current latitude the result grows, never below its value at a
\* latitude nearer the equator and, beyond MAX_LATITUDE, above its value there.
C9_MercatorRatioUnclamped ==
  MercatorDone =>
    /\ 2 * Abs(result * Cos(call.currentLat) - Cos(call.originalLat) * SCALE)
         <= Cos(call.currentLat)
    /\ \A lat \in Latitudes :
         Abs(lat) < Abs(call.currentLat)
           => getMercatorScale(call.originalLat, lat) <= result
    /\ (Abs(call.currentLat) > MAX_LATITUDE /\ Cos(call.originalLat) >= SCALE \div 2)
         => result > 2 * getMercatorScale(call.originalLat, MAX_LATITUDE)

C9_Witness ==
  /\ MercatorDone
  /\ call.originalLat = 0
  /\ call.currentLat = 8999
  /\ result > 10 * getMercatorScale(0, 89 * DEG)
  /\ result > 1000 * SCALE

\* C10: getMercatorScale(x, x) is exactly 1; from the equator to latitude 60 the
\* scale is 2.0, and from latitude 60 to the equator 0.5, within a unit of the fixed
\* point.
C10_MercatorValues ==
  MercatorDone =>
    /\ call.originalLat = call.currentLat => result = SCALE
    /\ (call.originalLat = 0 /\ call.currentLat = 60 * DEG)
         => Close(result, 2 * SCALE, 1)
    /\ (call.originalLat = 60 * DEG /\ call.currentLat = 0)
         => Close(result, SCALE \div 2, 1)

C10_Witness ==
  /\ MercatorDone
  /\ call.originalLat = 45 * DEG
  /\ call.currentLat = 45 * DEG
  /\ result = SCALE

RECURSIVE ArrayObjects(_, _, _)
\* The addresses of the array at ref and of the arrays in it.
ArrayObjects(objects, ref, depth) ==
  IF depth = 1 THEN {ref}
  ELSE {ref} \cup UNION { ArrayObjects(objects, objects[ref].items[i], depth - 1) :
                            i \in DOMAIN objects[ref].items }

RECURSIVE ObjectsOf(_, _)
\* The addresses of the geometry object at ref, of its arrays at every level and of
\* its child geometries with theirs; none for no geometry.
ObjectsOf(objects, ref) ==
  IF ref = 0 THEN {}
  ELSE IF objects[ref].type = "GeometryCollection"
       THEN {ref, objects[ref].geometries}
              \cup UNION { ObjectsOf(objects, objects[objects[ref].geometries].items[i]) :
                             i \in DOMAIN objects[objects[ref].geometries].items }
       ELSE {ref} \cup ArrayObjects(objects, objects[ref].coordinates,
                                    Depth(objects[ref].type))

RECURSIVE OtherKindObjects(_, _)
\* The objects of the geometries of no known kind in the geometry at ref: the
\* geometry itself, or children of a GeometryCollection at any depth.
OtherKindObjects(objects, ref) ==
  IF ref = 0 THEN {}
  ELSE CASE objects[ref].type = "GeometryCollection" ->
              UNION { OtherKindObjects(objects, objects[objects[ref].geometries].items[i]) :
                        i \in DOMAIN objects[objects[ref].geometries].items }
         [] objects[ref].type \in KnownTypes \ {"GeometryCollection"} -> {}
         [] OTHER -> ObjectsOf(objects, ref)

\* The geometry a call was given, Null for a call without one.
GeometryGiven == IF "geometry" \in DOMAIN call THEN call.geometry ELSE Null

\* Every object the caller held before the call is as it was: the geometry given,
\* its coordinate arrays at every level, its child geometries.
InputKept ==
  /\ SubSeq(heap, 1, Len(InitialHeap(call).heap)) = InitialHeap(call).heap
  /\ ValueAt(heap, input) = GeometryGiven

\* C11, as stated: rotateGeometry and scaleGeometry leave the geometry given as it
\* was, at every level, and what they return is a new structure: no object of it is
\* an object of the input.
C11_InputKeptResultNew ==
  /\ InputKept
  /\ output # 0 => ObjectsOf(heap, output) \cap ObjectsOf(heap, input) = {}

\* C11, amended: rotateGeometry and scaleGeometry leave the geometry given as it
\* was, at every level; what they return is a new structure (a new object with new
\* arrays at every level) for a geometry of one of the seven kinds, while a geometry
\* of another kind is returned itself, the same object, also as a child of a
\* GeometryCollection.
C11_InputKeptResultNewIfKnownKind ==
  /\ InputKept
  /\ output # 0 =>
       /\ ObjectsOf(heap, output) \cap ObjectsOf(heap, input) = OtherKindObjects(heap, input)
       /\ heap[input].type \in KnownTypes => output > Len(InitialHeap(call).heap)
       /\ heap[input].type \notin KnownTypes => output = input

C11_Witness ==
  /\ RotateGeometryDone
  /\ ~rotation.identity
  /\ call.geometry.type = "GeometryCollection"
  /\ \E k \in DOMAIN call.geometry.geometries :
       call.geometry.geometries[k].type = "GeometryCollection"
  /\ result # call.geometry
  /\ GeometryAt(heap, input) = call.geometry
  /\ output # input
  /\ OtherKindObjects(heap, input) # {}

\* C12: a call of the engine made again with equal inputs, after other calls of
\* the engine on the same geometry object, returns what it returned the first time:
\* the function createSphericalRotation returned, rotateGeometry with a rotation
\* created again, scaleGeometry, getMercatorScale, normalize.
C12_EqualInputsEqualOutputs ==
  pc = "repeated" => repeated = result

C12_Witness ==
  /\ pc = "repeated"
  /\ call.fn = "rotateGeometry"
  /\ ~rotation.identity
  /\ call.geometry.type = "MultiPolygon"
  /\ result # call.geometry
  /\ repeated = result
  /\ Len(heap) >= 3 * Len(InitialHeap(call).heap)

\* C13: a geometry whose kind is none of the seven is returned by rotateGeometry and
\* by scaleGeometry as it is, the same object with the same value; nothing is
\* allocated, so that the position transform, which returns a new array each time
\* it is called, was not called.
C13_OtherKindPassedThrough ==
  (/\ pc = "done"
   /\ call.fn \in {"rotateGeometry", "scaleGeometry"}
   /\ call.geometry.type \notin KnownTypes) =>
     /\ result = call.geometry
     /\ output = input
     /\ heap = InitialHeap(call).heap
     /\ call.fn = "rotateGeometry" => rotateGeometry(call.geometry, rotation) = call.geometry
     /\ call.fn = "scaleGeometry" =>
          scaleGeometry(call.geometry, call.center, call.factor) = call.geometry

C13_Witness ==
  /\ pc = "done"
  /\ call.fn = "scaleGeometry"
  /\ call.geometry.type = "Feature"
  /\ call.factor = 2 * SCALE
  /\ \E i \in DOMAIN call.geometry.coordinates :
       scalePosition(call.center, call.factor, call.geometry.coordinates[i])
         # call.geometry.coordinates[i]
  /\ result = call.geometry

PlanetDone == pc = "done" /\ call.fn = "planetCountryFeature"

\* rotateGeometry and scaleGeometry of a geometry that may be missing.
RotatedOrNull(geometry, rotate) ==
  IF geometry = Null THEN Null ELSE rotateGeometry(geometry, rotate)

ScaledOrNull(geometry, center, factor) ==
  IF geometry = Null THEN Null ELSE scaleGeometry(geometry, center, factor)

\* C14: the geometry of the country on the planet is the original geometry scaled
\* about the original centroid by earthDiameter / activePlanetDiameter, and then that
\* scaled geometry rotated by the rotation from the original centroid to the
\* location on the planet: the geometry scaled is the original one, the geometry
\* rotated is the scaled one.
C14_ScaleThenRotate ==
  PlanetDone =>
    /\ 2 * Abs(planetScaleFactor(call.diameterKm) * call.diameterKm
                 - EARTH_DIAMETER_KM * SCALE) <= call.diameterKm
    /\ scaled = ScaledOrNull(call.geometry, call.originalCentroid,
                             planetScaleFactor(call.diameterKm))
    /\ rotation = createSphericalRotation(call.originalCentroid, call.planetCountryCentroid)
    /\ result = RotatedOrNull(scaled, rotation)

C14_Witness ==
  /\ PlanetDone
  /\ call.geometry = Square
  /\ call.diameterKm = PLANETS[8]
  /\ call.originalCentroid = Degrees(0, 0)
  /\ call.planetCountryCentroid = Degrees(0, 60)
  /\ scaled # call.geometry
  /\ result # scaled
  /\ result # scaleGeometry(rotateGeometry(call.geometry, rotation),
                            call.originalCentroid, planetScaleFactor(call.diameterKm))

\* A longitude and a latitude, finite and in range.
IsLonLat(value) ==
  /\ value[1] \in Int /\ Abs(value[1]) <= 180 * DEG
  /\ value[2] \in Int /\ Abs(value[2]) <= 90 * DEG

\* The endpoints of the call's rotation as unit vectors have a cross product
\* shorter than ROTATION_EPSILON.
NearZeroAxis(from, to) ==
  BelowEpsilon(Hypot(cross(lonLatToVector(from), lonLatToVector(to))))

\* C15: every call of the engine returns a value and not an error: the rotation is
\* a function, a rotated point is a finite LonLat (in range when the point given
\* is, or the rotation is not the identity), a rotated or scaled geometry a
\* geometry of the same structure with finite positions, the Mercator scale and
\* the normalized vector finite numbers.  The degenerate cases give the defaults:
\* the identity function for endpoints closer than epsilon, a unit axis when the
\* cross product is shorter than epsilon, the zero vector for a vector shorter
\* than epsilon, the clamped coordinate for a scaled coordinate out of range.
C15_NeverThrows ==
  /\ (pc # "start" /\ call.fn \in {"rotate", "rotateGeometry"}) =>
       /\ "identity" \in DOMAIN rotation
       /\ AngularDistance(call.from, call.to) = 0 => rotation.identity
       /\ (~rotation.identity /\ NearZeroAxis(call.from, call.to)) =>
            Abs(Hypot(rotation.axis) - SCALE) <= 1
  /\ RotateDone =>
       /\ result[1] \in Int /\ result[2] \in Int
       /\ (IsLonLat(call.coordinate) \/ ~rotation.identity) => IsLonLat(result)
  /\ (RotateGeometryDone \/ ScaleGeometryDone \/ (PlanetDone /\ call.geometry # Null)) =>
       /\ Shape(result) = Shape(call.geometry)
       /\ \A i \in DOMAIN PositionsOf(result) : IsLonLat(PositionsOf(result)[i])
  /\ ScaleGeometryDone =>
       \A i \in DOMAIN PositionsOf(result) : Abs(PositionsOf(result)[i][2]) <= MAX_LATITUDE
  /\ (PlanetDone /\ call.geometry # Null) =>
       \A i \in DOMAIN PositionsOf(scaled) : Abs(PositionsOf(scaled)[i][2]) <= MAX_LATITUDE
  /\ (PlanetDone /\ call.geometry = Null) => result = Null
  /\ MercatorDone => result \in Int /\ result > 0
  /\ (pc = "done" /\ call.fn = "normalize") =>
       /\ \A i \in 1..3 : result[i] \in Int /\ Abs(result[i]) <= SCALE
       /\ BelowEpsilon(Hypot(call.value)) => result = <<0, 0, 0>>

C15_Witness ==
  /\ RotateDone
  /\ call.from = Degrees(0, 90)
  /\ call.to = Degrees(0, -90)
  /\ call.coordinate = Degrees(0, 90)
  /\ NearZeroAxis(call.from, call.to)
  /\ ~rotation.identity
  /\ result[2] = -90 * DEG

\* The end-to-end scenario: the square rotated by createSphericalRotation((0, 0),
\* (0, 60)).
SquareRotated ==
  /\ RotateGeometryDone
  /\ call.geometry = Square
  /\ call.from = Degrees(0, 0)
  /\ call.to = Degrees(0, 60)

\* The four corners of a square, without the position that closes the ring.
Corners(square) == [i \in 1..4 |-> LonLatOf(square.coordinates[1][i])]

\* Every corner is as far from the target as it was from (0, 0).
CornersKeepDistance ==
  \A i \in 1..4 :
    Close(AngularDistance(Corners(result)[i], call.to),
          AngularDistance(Corners(call.geometry)[i], call.from), AngleTolerance)

\* The degrees a latitude may be from another to be near it, whatever near means.
NearDegrees == 0..90

\* C16, as stated: the corners of the rotated square have latitudes near 60
\* degrees, not near 70 or -60, for some meaning of near, and each corner keeps its
\* angular distance from the centre.
C16_CornersNear60 ==
  SquareRotated =>
    /\ \E near \in NearDegrees :
         \A i \in 1..4 :
           /\ Abs(Corners(result)[i][2] - 60 * DEG) <= near * DEG
           /\ Abs(Corners(result)[i][2] - 70 * DEG) > near * DEG
           /\ Abs(Corners(result)[i][2] + 60 * DEG) > near * DEG
    /\ CornersKeepDistance

\* The latitudes of the rotated corners, in 1/DEG degrees: 48.86 for the two that
\* were at latitude -10, 67.93 for the two that were at latitude 10.
CornerLatitudes == <<4886, 4886, 6793, 6793>>

\* C16, amended: the corners of the rotated square are centred on (0, 60), each
\* corner at the angular distance from (0, 60) that it had from (0, 0), about 14.1
\* degrees: the corners are symmetric about the meridian of the target, and their
\* latitudes are about 48.9 and 67.9 degrees, within that distance of 60 and not
\* near -60.
C16_CornersCentredOnTarget ==
  SquareRotated =>
    /\ CornersKeepDistance
    /\ \A i \in 1..4 :
         /\ Close(Corners(result)[i][2], CornerLatitudes[i], AngleTolerance)
         /\ Abs(Corners(result)[i][2] - 60 * DEG)
              <= AngularDistance(Corners(call.geometry)[i], call.from) + AngleTolerance
    /\ Close(Corners(result)[1][1], -Corners(result)[2][1], AngleTolerance)
    /\ Close(Corners(result)[4][1], -Corners(result)[3][1], AngleTolerance)
    /\ result.coordinates[1][5] = result.coordinates[1][1]

C16_Witness ==
  /\ SquareRotated
  /\ ~rotation.identity
  /\ Corners(result)[3][2] > 65 * DEG
  /\ Corners(result)[1][2] < 50 * DEG

\* The call made a rotation that is not the identity from endpoints whose cross
\* product is shorter than epsilon: the fallback of the axis was taken.
FallbackTaken ==
  /\ pc # "start"
  /\ call.fn \in {"rotate", "rotateGeometry"}
  /\ ~rotation.identity
  /\ NearZeroAxis(call.from, call.to)

\* C17, as stated: in the fallback the reference vector is [1,0,0] unless
\* fromVec.x is within 0.9 of 1 or of -1, in which case it is [0,1,0], and the axis
\* is cross(fromVec, reference), normalized.
C17_ReferenceWithinNineTenthsOfOne ==
  FallbackTaken =>
    LET fromVec == lonLatToVector(call.from)
        reference == IF Abs(Abs(fromVec[1]) - SCALE) <= (9 * SCALE) \div 10
                     THEN <<0, SCALE, 0>> ELSE <<SCALE, 0, 0>>
    IN  rotation.axis = normalize(cross(fromVec, reference))

\* C17, amended: in the fallback the reference vector is [1,0,0] unless the
\* magnitude of fromVec.x is at least 0.9, in which case it is [0,1,0]; the axis is
\* cross(fromVec, reference), normalized, whatever to is.
C17_ReferenceByMagnitudeOfX ==
  FallbackTaken =>
    LET fromVec == lonLatToVector(call.from)
        reference == IF Abs(fromVec[1]) >= (9 * SCALE) \div 10
                     THEN <<0, SCALE, 0>> ELSE <<SCALE, 0, 0>>
    IN  rotation.axis = normalize(cross(fromVec, reference))

C17_Witness ==
  /\ FallbackTaken
  /\ call.fn = "rotate"
  /\ pc = "done"
  /\ call.from = Degrees(180, 0)
  /\ call.to = Degrees(0, 0)
  /\ rotation.axis = <<0, 0, -SCALE>>

\* C18: when from and to are opposite points the axis of the rotation is a unit
\* vector perpendicular to fromVec, not the zero vector, with finite components;
\* the function returned maps from to the point to and gives a finite LonLat for
\* every input.
C18_AntipodalAxis ==
  FallbackTaken =>
    /\ rotation.axis # <<0, 0, 0>>
    /\ \A i \in 1..3 : rotation.axis[i] \in Int
    /\ Abs(Hypot(rotation.axis) - SCALE) <= 1
    /\ Abs(dot(rotation.axis, lonLatToVector(call.from))) <= 1
    /\ AngularDistance(Rotate(rotation, call.from), call.to) <= AngleTolerance
    /\ Unaliased(call.to) =>
         /\ Close(Rotate(rotation, call.from)[1], call.to[1], AngleTolerance)
         /\ Close(Rotate(rotation, call.from)[2], call.to[2], AngleTolerance)
    /\ RotateDone => IsLonLat(result)

C18_Witness ==
  /\ FallbackTaken
  /\ RotateDone
  /\ call.from = Degrees(60, 30)
  /\ call.to = Degrees(-120, -30)
  /\ call.coordinate = call.from
  /\ Close(result[1], call.to[1], AngleTolerance)
  /\ Close(result[2], call.to[2], AngleTolerance)

NormalizeDone == pc = "done" /\ call.fn = "normalize"

\* C19: normalize returns the zero vector for a vector shorter than 1e-6 and the
\* vector divided by its length, a unit vector, for any other; the fixed point of
\* the model holds no length between 0 and 1e-4, so that the vectors shorter than
\* 1e-6 are the zero vector and the shortest of the others are 1e-4 long.
C19_NormalizeGuard ==
  NormalizeDone =>
    LET length == Hypot(call.value)
    IN  /\ length * (ROTATION_EPSILON_INV \div SCALE) < 1 => result = <<0, 0, 0>>
        /\ length * (ROTATION_EPSILON_INV \div SCALE) >= 1 =>
             /\ \A i \in 1..3 : 2 * Abs(result[i] * length - call.value[i] * SCALE) <= length
             /\ Abs(Hypot(result) - SCALE) <= 1

C19_Witness ==
  /\ NormalizeDone
  /\ call.value = <<0, -1, 0>>
  /\ result = <<0, -SCALE, 0>>

\* C20: every position of the output of rotateGeometry, at the place of the input
\* position in the same list at every level, nested GeometryCollections included,
\* begins with the rotation of the first two numbers of the input position, and the
\* numbers after them have no part in it: it is what the rotation gives for the
\* pair alone.
C20_RotatedPointwise ==
  RotateGeometryDone =>
    /\ Shape(result) = Shape(call.geometry)
    /\ \A i \in DOMAIN PositionsOf(call.geometry) :
         LonLatOf(PositionsOf(result)[i])
           = Rotate(rotation, LonLatOf(PositionsOf(call.geometry)[i]))

C20_Witness ==
  /\ RotateGeometryDone
  /\ ~rotation.identity
  /\ call.geometry.type = "GeometryCollection"
  /\ \E k \in DOMAIN call.geometry.geometries :
       /\ call.geometry.geometries[k].type = "GeometryCollection"
       /\ \E i \in DOMAIN PositionsOf(call.geometry.geometries[k]) :
            /\ Len(PositionsOf(call.geometry.geometries[k])[i]) > 2
            /\ LonLatOf(PositionsOf(result.geometries[k])[i])
                 # LonLatOf(PositionsOf(call.geometry.geometries[k])[i])

\* The longitude and latitude pairs of the positions of a geometry.
LonLatsOf(g) == { LonLatOf(PositionsOf(g)[i]) : i \in DOMAIN PositionsOf(g) }

\* The per-position scale-and-clamp function for a center and a factor: the offset
\* from the center times the factor, the latitude clamped to MAX_LATITUDE and the
\* longitude to 180 degrees, on the pairs of a geometry.
ScaleAndClamp(g, center, factor) ==
  [lonLat \in LonLatsOf(g) |->
     << clamp(center[1] + Mul(lonLat[1] - center[1], factor), -180 * DEG, 180 * DEG),
        clamp(center[2] + Mul(lonLat[2] - center[2], factor),
              -MAX_LATITUDE, MAX_LATITUDE) >>]

\* C21: the traversal of scaleGeometry is the traversal of rotateGeometry.  What
\* scaleGeometry(g, center, factor) returns is what rotateGeometry returns for g and
\* the per-position scale-and-clamp function of center and factor; and what
\* rotateGeometry returns for a spherical rotation is what that one traversal
\* returns for the rotation as a function of pairs.
C21_ScalerTraversalIsRotatorTraversal ==
  /\ ScaleGeometryDone =>
       result = rotateGeometryBy(call.geometry,
                                 ScaleAndClamp(call.geometry, call.center, call.factor))
  /\ RotateGeometryDone =>
       result = rotateGeometryBy(call.geometry,
                                 [lonLat \in LonLatsOf(call.geometry) |->
                                    Rotate(rotation, lonLat)])

C21_Witness ==
  /\ ScaleGeometryDone
  /\ call.geometry.type = "GeometryCollection"
  /\ call.factor = 2 * SCALE
  /\ \E k \in DOMAIN call.geometry.geometries :
       /\ call.geometry.geometries[k].type = "MultiPolygon"
       /\ \E i \in DOMAIN call.geometry.geometries[k].coordinates :
            Len(call.geometry.geometries[k].coordinates[i]) > 1
       /\ result.geometries[k] # call.geometry.geometries[k]

\* The geometry of a planet placement computed in the opposite order: rotated by the
\* rotation from the center to the other point, then scaled about the center.
RotatedThenScaled ==
  scaleGeometry(rotateGeometry(call.geometry, rotation),
                call.originalCentroid, planetScaleFactor(call.diameterKm))

\* C23: scaling and rotation do not commute.  For the square about its center, the
\* factor of a planet other than the Earth (a factor other than 1) and a rotation from the center to another point that is not
\* the identity, the geometry scaled and then rotated differs from the geometry
\* rotated and then scaled.
C23_ScaleAndRotateDoNotCommute ==
  ( /\ PlanetDone
    /\ call.geometry = Square
    /\ call.originalCentroid = Degrees(0, 0)
    /\ call.diameterKm # EARTH_DIAMETER_KM
    /\ ~rotation.identity )
  => /\ result = rotateGeometry(scaleGeometry(call.geometry, call.originalCentroid,
                                              planetScaleFactor(call.diameterKm)),
                                rotation)
     /\ result # RotatedThenScaled

C23_Witness ==
  /\ PlanetDone
  /\ call.geometry = Square
  /\ call.originalCentroid = Degrees(0, 0)
  /\ call.planetCountryCentroid = Degrees(-90, 30)
  /\ call.diameterKm = PLANETS[1]
  /\ ~rotation.identity
  /\ result # RotatedThenScaled

\* A point within the ranges of a longitude and of a latitude.
InRange(lonLat) == Abs(lonLat[1]) <= 180 * DEG /\ Abs(lonLat[2]) <= 90 * DEG

\* C24: every point a rotation function returns, when it is not the identity
\* function, has its longitude within -180 .. 180 degrees and its latitude within
\* -90 .. 90 degrees, also for a point given with a longitude or a latitude outside
\* these ranges.
C24_RotatedPointInRange ==
  (RotateDone /\ ~rotation.identity) => InRange(result)

C24_Witness ==
  /\ RotateDone
  /\ ~rotation.identity
  /\ call.coordinate = Degrees(-200, 100)
  /\ InRange(result)
  /\ result[1] < 0

\* C25: scaleGeometry keeps its center fixed.  A position whose longitude and
\* latitude are those of the center, the latitude of the center within MAX_LATITUDE
\* and its longitude within 180 degrees, comes out of scaleGeometry with the same
\* longitude and latitude, for every factor; and in a planet placement the position
\* at the original centroid is still there once scaled, and lands on the centroid
\* on the planet, as a point of the sphere, for every planet.
C25_CenterFixed ==
  /\ ScaleGeometryDone =>
       \A i \in DOMAIN PositionsOf(call.geometry) :
         ( /\ LonLatOf(PositionsOf(call.geometry)[i]) = call.center
           /\ Abs(call.center[2]) <= MAX_LATITUDE
           /\ Abs(call.center[1]) <= 180 * DEG )
         => LonLatOf(PositionsOf(result)[i]) = call.center
  /\ (PlanetDone /\ call.geometry # Null) =>
       \A i \in DOMAIN PositionsOf(call.geometry) :
         LonLatOf(PositionsOf(call.geometry)[i]) = call.originalCentroid
         => /\ LonLatOf(PositionsOf(scaled)[i]) = call.originalCentroid
            /\ AngularDistance(LonLatOf(PositionsOf(result)[i]),
                               call.planetCountryCentroid) <= AngleTolerance

C25_Witness ==
  /\ PlanetDone
  /\ call.geometry # Null
  /\ call.geometry.type = "MultiPoint"
  /\ call.originalCentroid = Degrees(60, 30)
  /\ call.planetCountryCentroid = Degrees(-90, 30)
  /\ call.diameterKm = PLANETS[1]
  /\ LonLatOf(scaled.coordinates[2]) = Degrees(60, 30)
  /\ LonLatOf(scaled.coordinates[1]) # Degrees(0, 0)
  /\ Close(result.coordinates[2][1], -90 * DEG, AngleTolerance)
  /\ Close(result.coordinates[2][2], 30 * DEG, AngleTolerance)

\* C26: the two copies of the engine return the same.  What createSphericalRotation,
\* the function it returns, rotateGeometry, scaleGeometry and getMercatorScale of
\* App.tsx return for a call is what the exported functions of utils/geo and
\* utils/formatters return for the same arguments.
C26_CopiesAgree ==
  /\ (pc \in {"rotation", "done"} /\ call.fn \in {"rotate", "rotateGeometry"}) =>
       rotation = createSphericalRotation(call.from, call.to)
  /\ RotateDone => result = Rotate(rotation, call.coordinate)
  /\ RotateGeometryDone => result = rotateGeometry(call.geometry, rotation)
  /\ ScaleGeometryDone => result = scaleGeometry(call.geometry, call.center, call.factor)
  /\ MercatorDone => result = getMercatorScale(call.originalLat, call.currentLat)

C26_Witness ==
  /\ ScaleGeometryDone
  /\ call.geometry.type = "MultiPolygon"
  /\ call.factor = 4 * SCALE
  /\ \E i \in DOMAIN PositionsOf(call.geometry) :
       /\ PositionsOf(result)[i][2] = MAX_LATITUDE_App
       /\ PositionsOf(call.geometry)[i][2] < MAX_LATITUDE_App

\* The records the load effect wrote.
LoadedCountries == Prepared(Features, NamesOfFile)

\* The record of the country of this id that the load effect wrote.
LoadedCountry(id) ==
  LoadedCountries[CHOOSE i \in DOMAIN LoadedCountries : LoadedCountries[i].id = id]

\* C22: whatever the handlers did (map drags, country drags on the globe, a drop on
\* the planet, reset positions, reset scene, toggling the draggable countries),
\* the record of every country holds the feature, with its geometry, and the
\* originalCentroid that the load effect wrote: what is shown is computed from
\* them and never written to the record.
C22_SourceKept ==
  /\ Len(countries) = Len(LoadedCountries)
  /\ \A i \in DOMAIN countries :
       /\ countries[i].feature = LoadedCountry(countries[i].id).feature
       /\ countries[i].originalCentroid = LoadedCountry(countries[i].id).originalCentroid

\* A country was dragged on the map, a country was dragged on the globe and dropped
\* on the planet, and the scene is as it was left.
C22_Witness ==
  /\ \E i \in DOMAIN countries : countries[i].offset # [x |-> 0, y |-> 0]
  /\ \E i \in DOMAIN countries :
       /\ countries[i].globeCentroid # countries[i].originalCentroid
       /\ planetCountryId = countries[i].id
  /\ planetCountryCentroid # NoLonLat
  /\ globeCountryDragState = Null

\* C27: of globeDragState, globeCountryDragState, planetDragState and
\* planetCountryDragState no two are set together, whatever pointer-down,
\* pointer-move, pointer-up or pointer-cancel, modifier key, blur and reset events
\* were handled.
C27_OneDragAtMost ==
  Cardinality({k \in 1..4 : globeRefs[k] # Null}) <= 1

\* A drag of the planet began while the globe was being rotated, and took its place.
C27_Witness ==
  /\ gestures = 2
  /\ planetDragState # Null
  /\ globeDragState = Null
  /\ globeDragging

\* The place of a country on the map, its screen centroid moved by its offset, is
\* within the padding of the map.
InsideMap(country) ==
  /\ country.centroidScreen[1] + country.offset.x >= MAP_PADDING
  /\ country.centroidScreen[1] + country.offset.x <= MAP_WIDTH - MAP_PADDING
  /\ country.centroidScreen[2] + country.offset.y >= MAP_PADDING
  /\ country.centroidScreen[2] + country.offset.y <= MAP_HEIGHT - MAP_PADDING

TiltWithin(rotated) ==
  /\ rotated[2] >= -MAX_GLOBE_TILT
  /\ rotated[2] <= MAX_GLOBE_TILT
  /\ rotated[3] = 0

\* C29: a pointer-move event of the pointer that rotates the globe, or the planet,
\* leaves a rotation whose tilt is within -MAX_GLOBE_TILT .. MAX_GLOBE_TILT and
\* whose roll is 0, wherever the pointer is and whatever the rotation the drag
\* began from.
C29_TiltClamped ==
  [][\A pointerId \in PointerIds, client \in ClientPoints :
       (/\ globeDragging
        /\ Holds(globeDragState, pointerId) \/ Holds(planetDragState, pointerId)
        /\ GlobeMoved(pointerId, client))
       => IF Holds(globeDragState, pointerId)
          THEN TiltWithin(globeRotation')
          ELSE TiltWithin(planetRotation')]_vars

\* The globe was rotated to the greatest tilt by a pointer far above the place the
\* drag began at.
C29_Witness ==
  /\ globeDragState # Null
  /\ globeRotation[2] = MAX_GLOBE_TILT
  /\ globeRotation # globeDragState.rotation

(***************************************************************************)
(* C30: a run of the load effect that was cancelled writes nothing: no     *)
(* step it takes after the cleanup changes countries, worldFeatures, the   *)
(* first selection (selectedId, draggableIds), error or loading, however   *)
(* its promises settle.  A run that is not cancelled ends, its promises    *)
(* settling, and where it ends loading is false and there is an error      *)
(* message or countries holds the countries it prepared.                   *)
(***************************************************************************)
C30_CancelledInertOthersEnd ==
  /\ [][\A i \in DOMAIN loads :
          loads[i].cancelled /\ loads'[i] # loads[i] => UNCHANGED Written]_vars
  /\ [][\A i \in DOMAIN loads :
          ~loads[i].cancelled /\ loads[i].pc # "done" /\ loads'[i].pc = "done"
          => /\ loading' = FALSE
             /\ \/ error' # NoId
                \/ countries' = Prepared(Features, loads[i].nameLookup)]_vars
  /\ \A i \in 1..MaxLoads :
       [](i \in DOMAIN loads /\ ~loads[i].cancelled
          => <>(i \in DOMAIN loads /\ (loads[i].cancelled \/ loads[i].pc = "done")))

\* A cancelled run has ended after its cleanup, the run after it has loaded the
\* countries.
C30_Witness ==
  /\ Len(loads) = 2
  /\ loads[1].cancelled /\ loads[1].pc = "done"
  /\ ~loads[2].cancelled /\ loads[2].pc = "done"
  /\ ~loading /\ error = NoId /\ Len(countries) = 2

TypeOK == pc \in {"none", "start", "rotation", "done", "back", "between", "repeated"}
====
